---------------------------- MODULE Spec2Model ----------------------------
(***************************************************************************)
(* Model of the generic two-player game solver: the GameState contract,   *)
(* Tic-Tac-Toe, bitboard Connect Four and the minimax / alpha-beta search  *)
(* family of solver_core.                                                  *)
(*                                                                         *)
(* Conventions:                                                            *)
(*   Option<T>   None is {} and Some(v) is {v}; unwrap is a CHOOSE, which  *)
(*               has no value on None (the panic of the source).           *)
(*   u64 boards  a bitboard is the set of its set bit indices (0..63), so  *)
(*               |, &, ^, >> and << are set operations on bit indices.     *)
(*   Vec<T>      a sequence; the source's 0-based positions are kept in    *)
(*               the elements, not in the sequence's own indices.          *)
(***************************************************************************)
EXTENDS Integers, Sequences, FiniteSets, TLC

VARIABLES game, ttt, c4, script, plies, free, limit, over,
          pc, human_is_player1, ai_depth, move, repr, parsed

vars == <<game, ttt, c4, script, plies, free, limit, over,
          pc, human_is_player1, ai_depth, move, repr, parsed>>

\* The variables of the interactive driver (main.rs) and of the board parser.
driver == <<pc, human_is_player1, ai_depth, move>>

parser == <<repr, parsed>>

(***************************************************************************)
(* game.rs and utils.rs: players and Option                                *)
(***************************************************************************)
Player == {"Player1", "Player2"}

\* Mutant: both arms of the match give Player2.
opposite_player_stuck(p) == IF p = "Player1" THEN "Player2" ELSE "Player2"

opposite_player(p) == IF p = "Player1" THEN "Player2" ELSE "Player1"

None == {}

Some(v) == {v}

is_some(o) == o # {}

unwrap(o) == CHOOSE v \in o : TRUE

I32_MAX == 2147483647

I32_MIN == -2147483647 - 1

\* The outcome of a call: it panics, or it returns a value.
Panic == [panicked |-> TRUE]

Returned(v) == [panicked |-> FALSE, value |-> v]

(***************************************************************************)
(* games/ttt.rs                                                            *)
(***************************************************************************)
Cell == {"Empty", "X", "O"}

WIN_LINES ==
    << <<0, 1, 2>>, <<3, 4, 5>>, <<6, 7, 8>>,
       <<0, 3, 6>>, <<1, 4, 7>>, <<2, 5, 8>>,
       <<0, 4, 8>>, <<2, 4, 6>> >>

TttIndices == <<0, 1, 2, 3, 4, 5, 6, 7, 8>>

ttt_new == [board |-> [i \in 0..8 |-> "Empty"], current_player |-> "Player1"]

ttt_current_player(s) == s.current_player

ttt_legal_moves(s) == SelectSeq(TttIndices, LAMBDA i : s.board[i] = "Empty")

\* Mutant: the player to move is not switched.
ttt_apply_move_same_player(s, mv) ==
    LET mark == IF s.current_player = "Player1" THEN "X" ELSE "O"
    IN  [board |-> [s.board EXCEPT ![mv] = mark], current_player |-> s.current_player]

\* Mutant: the mark is X for either player.
ttt_apply_move_always_x(s, mv) ==
    [board |-> [s.board EXCEPT ![mv] = "X"],
     current_player |-> opposite_player(s.current_player)]

ttt_apply_move(s, mv) ==
    LET mark == IF s.current_player = "Player1" THEN "X" ELSE "O"
    IN  [board |-> [s.board EXCEPT ![mv] = mark],
         current_player |-> opposite_player(s.current_player)]

\* Mutant: the index is reduced into the board instead of being bounds-checked.
ttt_apply_move_u8_wrapping(s, index) == Returned(ttt_apply_move(s, index % 9))

\* apply_move for any u8 index: new_board[mv.index as usize] panics when the
\* index is outside the 9-cell array; the cell's content is not looked at.
ttt_apply_move_u8(s, index) ==
    IF index >= 9 THEN Panic ELSE Returned(ttt_apply_move(s, index))

ttt_line_won(s, k) ==
    LET l == WIN_LINES[k]
    IN  /\ s.board[l[1]] = s.board[l[2]]
        /\ s.board[l[2]] = s.board[l[3]]
        /\ s.board[l[1]] # "Empty"

ttt_board_filled(s) == \A i \in 0..8 : s.board[i] # "Empty"

\* Mutant: the draw test (no cell empty) is forgotten.
ttt_is_terminal_lines_only(s) == \E k \in 1..8 : ttt_line_won(s, k)

ttt_is_terminal(s) ==
    IF \E k \in 1..8 : ttt_line_won(s, k) THEN TRUE ELSE ttt_board_filled(s)

\* Mutant: the arms for Cell::X and Cell::O are exchanged.
ttt_terminal_value_swapped(s) ==
    IF \E k \in 1..8 : ttt_line_won(s, k)
    THEN LET k == CHOOSE j \in 1..8 :
                      /\ ttt_line_won(s, j)
                      /\ \A i \in 1..(j - 1) : ~ttt_line_won(s, i)
         IN  Some(IF s.board[WIN_LINES[k][1]] = "X" THEN -1 ELSE 1)
    ELSE IF ttt_board_filled(s) THEN Some(0) ELSE None

\* The for loop returns at the first line of WIN_LINES that is won.
ttt_terminal_value(s) ==
    IF \E k \in 1..8 : ttt_line_won(s, k)
    THEN LET k == CHOOSE j \in 1..8 :
                      /\ ttt_line_won(s, j)
                      /\ \A i \in 1..(j - 1) : ~ttt_line_won(s, i)
         IN  Some(IF s.board[WIN_LINES[k][1]] = "X" THEN 1 ELSE -1)
    ELSE IF ttt_board_filled(s) THEN Some(0) ELSE None

\* Mutant: the arms for the centre and the corners are exchanged.
ttt_move_ordering_key_corner_first(s, mv) ==
    IF mv = 4 THEN 2 ELSE IF mv \in {0, 2, 6, 8} THEN 3 ELSE 1

ttt_move_ordering_key(s, mv) ==
    IF mv = 4 THEN 3 ELSE IF mv \in {0, 2, 6, 8} THEN 2 ELSE 1

\* Result<T, String>: Ok(v) and Err(e) as tagged records.
Ok(v) == [ok |-> TRUE, value |-> v]

Err(e) == [ok |-> FALSE, error |-> e]

is_ok(r) == r.ok

is_err(r) == ~r.ok

\* The match of from_str's closure on one character; anything but 'X', 'O'
\* and '.' is an error carrying the character.
char_to_cell(n) ==
    CASE n = "X" -> Ok("X")
      [] n = "O" -> Ok("O")
      [] n = "." -> Ok("Empty")
      [] OTHER -> Err(<<"Invalid character: ", n>>)

cell_to_char(c) ==
    CASE c = "Empty" -> "."
      [] c = "X" -> "X"
      [] c = "O" -> "O"

\* collect::<Result<Vec<Cell>, String>>(): the cells in order, or the error of
\* the first character that has one.
RECURSIVE collect_cells(_, _, _)
collect_cells(str, k, cells) ==
    IF k > Len(str) THEN Ok(cells)
    ELSE LET c == char_to_cell(str[k])
         IN  IF is_err(c) THEN c ELSE collect_cells(str, k + 1, Append(cells, c.value))

\* Mutant: the length of the input is not checked: the board takes the first
\* nine cells, and is padded with Empty when there are fewer.
from_str_any_length(str, player) ==
    LET cells == collect_cells(str, 1, <<>>)
    IN  IF is_err(cells) THEN cells
        ELSE Ok([board |-> [i \in 0..8 |-> IF i + 1 <= Len(cells.value)
                                            THEN cells.value[i + 1] ELSE "Empty"],
                 current_player |-> player])

\* TicTacToeState::from_str: the characters are converted first (the ? on the
\* collected Result), then the Vec is converted to [Cell; 9].
from_str(str, player) ==
    LET cells == collect_cells(str, 1, <<>>)
    IN  IF is_err(cells) THEN cells
        ELSE IF Len(cells.value) # 9
        THEN Err(<<"Expected 9 cells, got ", Len(cells.value)>>)
        ELSE Ok([board |-> [i \in 0..8 |-> cells.value[i + 1]],
                 current_player |-> player])

\* A line of input is a sequence of characters.
Digits == <<"0", "1", "2", "3", "4", "5", "6", "7", "8", "9">>

Whitespace == {" ", "\n", "\t", "\r"}

\* str::trim: the whitespace at both ends is removed.
RECURSIVE trim_start(_)
trim_start(str) ==
    IF Len(str) > 0 /\ Head(str) \in Whitespace THEN trim_start(Tail(str)) ELSE str

RECURSIVE trim_end(_)
trim_end(str) ==
    IF Len(str) > 0 /\ str[Len(str)] \in Whitespace
    THEN trim_end(SubSeq(str, 1, Len(str) - 1)) ELSE str

trim(str) == trim_end(trim_start(str))

digit_value(ch) == (CHOOSE k \in 1..10 : Digits[k] = ch) - 1

RECURSIVE digits_value(_, _, _)
digits_value(str, k, acc) ==
    IF k > Len(str) THEN acc ELSE digits_value(str, k + 1, acc * 10 + digit_value(str[k]))

\* str::parse::<usize>(): an optional '+', then one or more decimal digits and
\* nothing else (the inputs here are too short to overflow usize).
parse_usize(str) ==
    LET body == IF Len(str) > 0 /\ Head(str) = "+" THEN Tail(str) ELSE str
    IN  IF Len(str) = 0 THEN Err("Empty")
        ELSE IF Len(body) = 0 THEN Err("InvalidDigit")
        ELSE IF \E k \in 1..Len(body) : \A d \in 1..10 : Digits[d] # body[k]
        THEN Err("InvalidDigit")
        ELSE Ok(digits_value(body, 1, 0))

\* Mutant: the test of the chosen cell is left out.
parse_ttt_move_any_cell(input, state) ==
    LET clean == trim(input)
        idx == parse_usize(clean)
    IN  IF is_err(idx) THEN Err("Could not parse input as a number in 0..=8")
        ELSE IF idx.value > 8 THEN Err("Index must be between 0 and 8")
        ELSE Ok(idx.value)

parse_ttt_move(input, state) ==
    LET clean == trim(input)
        idx == parse_usize(clean)
    IN  IF is_err(idx) THEN Err("Could not parse input as a number in 0..=8")
        ELSE IF idx.value > 8 THEN Err("Index must be between 0 and 8")
        ELSE IF state.board[idx.value] # "Empty" THEN Err("Cell is not empty.")
        ELSE Ok(idx.value)

\* The trait's default heuristic_value, which TicTacToeState does not override.
ttt_heuristic_value(s) ==
    LET tv == ttt_terminal_value(s) IN IF is_some(tv) THEN unwrap(tv) ELSE 0

(***************************************************************************)
(* games/c4_bitboard.rs                                                    *)
(***************************************************************************)
ROWS == 6

COLS == 7

BITS_PER_COL == ROWS + 1

WIN_LENGTH == 4

COL_WEIGHTS == <<3, 4, 5, 7, 5, 4, 3>>

\* u64 operations on a bitboard held as the set of its set bit indices.
Bit(k) == IF k \in 0..63 THEN {k} ELSE {}

BitOr(a, b) == a \cup b

BitAnd(a, b) == a \cap b

BitXor(a, b) == (a \ b) \cup (b \ a)

Shr(bb, s) == {i - s : i \in {j \in bb : j >= s}}

count_ones(bb) == Cardinality(bb)

c4_new ==
    [player_bb |-> {}, mask_bb |-> {}, heights |-> [c \in 0..(COLS - 1) |-> 0],
     current_player |-> "Player1"]

next_bit(s, col) == Bit((col * BITS_PER_COL) + s.heights[col])

idx(row, col) == col * BITS_PER_COL + row

\* Mutant: the disc is recorded in player_bb for either player.
apply_column_move_any_player(s, col) ==
    LET next_move == next_bit(s, col)
    IN  [player_bb |-> BitOr(s.player_bb, next_move),
         mask_bb |-> BitOr(s.mask_bb, next_move),
         heights |-> [s.heights EXCEPT ![col] = @ + 1],
         current_player |-> opposite_player(s.current_player)]

apply_column_move(s, col) ==
    LET next_move == next_bit(s, col)
    IN  [player_bb |-> IF s.current_player = "Player1"
                       THEN BitOr(s.player_bb, next_move) ELSE s.player_bb,
         mask_bb |-> BitOr(s.mask_bb, next_move),
         heights |-> [s.heights EXCEPT ![col] = @ + 1],
         current_player |-> opposite_player(s.current_player)]

\* apply_column_move for any u8 column: self.heights[col as usize] in next_bit
\* panics when col is outside the 7-entry array (for col >= 37 the u8 product
\* col * BITS_PER_COL overflows first, which panics or wraps before the same
\* index panics); the column's height is not looked at.
apply_column_move_u8(s, col) ==
    IF col >= 7 THEN Panic ELSE Returned(apply_column_move(s, col))

p2_bb(s) == BitXor(s.mask_bb, s.player_bb)

has_run(bb, shift) ==
    LET x == BitAnd(bb, Shr(bb, shift))
    IN  BitAnd(x, Shr(x, 2 * shift)) # {}

\* Mutant: the shifts are taken from ROWS, without the sentinel row.
check_win_no_sentinel(bb) ==
    \/ has_run(bb, 1)
    \/ has_run(bb, ROWS)
    \/ has_run(bb, ROWS + 1)
    \/ has_run(bb, ROWS - 1)

check_win(bb) ==
    \/ has_run(bb, 1)
    \/ has_run(bb, BITS_PER_COL)
    \/ has_run(bb, BITS_PER_COL + 1)
    \/ has_run(bb, BITS_PER_COL - 1)

\* Mutant: any() in place of all().
is_full_any(s) == \E c \in 0..(COLS - 1) : s.heights[c] = ROWS

is_full(s) == \A c \in 0..(COLS - 1) : s.heights[c] = ROWS

\* Mutant: <= in place of <, so a full column is still offered.
c4_legal_moves_inclusive(s) ==
    SelectSeq(<<0, 1, 2, 3, 4, 5, 6>>, LAMBDA c : s.heights[c] <= ROWS)

c4_legal_moves(s) ==
    SelectSeq(<<0, 1, 2, 3, 4, 5, 6>>, LAMBDA c : s.heights[c] < ROWS)

c4_is_terminal(s) ==
    check_win(s.player_bb) \/ check_win(p2_bb(s)) \/ is_full(s)

\* Mutant: Player2's win is tested first.
c4_terminal_value_p2_first(s) ==
    IF check_win(p2_bb(s)) THEN Some(-1)
    ELSE IF check_win(s.player_bb) THEN Some(1)
    ELSE IF is_full(s) THEN Some(0)
    ELSE None

c4_terminal_value(s) ==
    IF check_win(s.player_bb) THEN Some(1)
    ELSE IF check_win(p2_bb(s)) THEN Some(-1)
    ELSE IF is_full(s) THEN Some(0)
    ELSE None

window_mask(coords) == {idx(coords[k][1], coords[k][2]) : k \in 1..4}

count_player_chips(board, mask) == count_ones(BitAnd(mask, board))

\* Mutant: the (0, 2) arm is written (0, _), so it also takes the empty window.
score_window_wildcard(p1_board, p2_board, mask) ==
    LET num_p1_chips == count_player_chips(p1_board, mask)
        num_p2_chips == count_player_chips(p2_board, mask)
    IN  CASE num_p1_chips = 4 /\ num_p2_chips = 0 -> 100000
          [] num_p1_chips = 3 /\ num_p2_chips = 0 -> 100
          [] num_p1_chips = 2 /\ num_p2_chips = 0 -> 10
          [] num_p1_chips = 0 /\ num_p2_chips = 3 -> -100
          [] num_p1_chips = 0 /\ num_p2_chips = 4 -> -100000
          [] num_p1_chips = 0 /\ num_p2_chips \notin {3, 4} -> -10
          [] OTHER -> 0

\* Mutant: the (3, 0) arm scores as a completed window.
score_window_three_as_four(p1_board, p2_board, mask) ==
    LET num_p1_chips == count_player_chips(p1_board, mask)
        num_p2_chips == count_player_chips(p2_board, mask)
    IN  CASE num_p1_chips = 4 /\ num_p2_chips = 0 -> 100000
          [] num_p1_chips = 3 /\ num_p2_chips = 0 -> 100000
          [] num_p1_chips = 2 /\ num_p2_chips = 0 -> 10
          [] num_p1_chips = 0 /\ num_p2_chips = 2 -> -10
          [] num_p1_chips = 0 /\ num_p2_chips = 3 -> -100
          [] num_p1_chips = 0 /\ num_p2_chips = 4 -> -100000
          [] OTHER -> 0

score_window(p1_board, p2_board, mask) ==
    LET num_p1_chips == count_player_chips(p1_board, mask)
        num_p2_chips == count_player_chips(p2_board, mask)
    IN  CASE num_p1_chips = 4 /\ num_p2_chips = 0 -> 100000
          [] num_p1_chips = 3 /\ num_p2_chips = 0 -> 100
          [] num_p1_chips = 2 /\ num_p2_chips = 0 -> 10
          [] num_p1_chips = 0 /\ num_p2_chips = 2 -> -10
          [] num_p1_chips = 0 /\ num_p2_chips = 3 -> -100
          [] num_p1_chips = 0 /\ num_p2_chips = 4 -> -100000
          [] OTHER -> 0

\* The windows visited by the nested loops of check_horizontal, check_vertical,
\* check_diag_down and check_diag_up, in loop order (col outer, row inner), each
\* as its four (row, col) coordinates.
horizontal_windows ==
    [k \in 1..((COLS - WIN_LENGTH + 1) * ROWS) |->
        LET col == (k - 1) \div ROWS
            row == (k - 1) % ROWS
        IN  << <<row, col>>, <<row, col + 1>>, <<row, col + 2>>, <<row, col + 3>> >>]

vertical_windows ==
    [k \in 1..(COLS * (ROWS - WIN_LENGTH + 1)) |->
        LET col == (k - 1) \div (ROWS - WIN_LENGTH + 1)
            row == (k - 1) % (ROWS - WIN_LENGTH + 1)
        IN  << <<row, col>>, <<row + 1, col>>, <<row + 2, col>>, <<row + 3, col>> >>]

diag_down_windows ==
    [k \in 1..((COLS - WIN_LENGTH + 1) * (ROWS - WIN_LENGTH + 1)) |->
        LET col == (k - 1) \div (ROWS - WIN_LENGTH + 1)
            row == (k - 1) % (ROWS - WIN_LENGTH + 1)
        IN  << <<row, col>>, <<row + 1, col + 1>>, <<row + 2, col + 2>>,
               <<row + 3, col + 3>> >>]

diag_up_windows ==
    [k \in 1..((COLS - WIN_LENGTH + 1) * (ROWS - WIN_LENGTH + 1)) |->
        LET col == (k - 1) \div (ROWS - WIN_LENGTH + 1)
            row == (WIN_LENGTH - 1) + ((k - 1) % (ROWS - WIN_LENGTH + 1))
        IN  << <<row, col>>, <<row - 1, col + 1>>, <<row - 2, col + 2>>,
               <<row - 3, col + 3>> >>]

window_masks(windows) == [k \in DOMAIN windows |-> window_mask(windows[k])]

horizontal_masks == window_masks(horizontal_windows)

vertical_masks == window_masks(vertical_windows)

diag_down_masks == window_masks(diag_down_windows)

diag_up_masks == window_masks(diag_up_windows)

\* score += self.score_window(p1_board, p2_board, mask) over the windows from k on.
RECURSIVE score_windows_from(_, _, _, _)
score_windows_from(masks, k, p1_board, p2_board) ==
    IF k > Len(masks) THEN 0
    ELSE score_window(p1_board, p2_board, masks[k])
             + score_windows_from(masks, k + 1, p1_board, p2_board)

check_horizontal(p1_board, p2_board) ==
    score_windows_from(horizontal_masks, 1, p1_board, p2_board)

check_vertical(p1_board, p2_board) ==
    score_windows_from(vertical_masks, 1, p1_board, p2_board)

check_diag_down(p1_board, p2_board) ==
    score_windows_from(diag_down_masks, 1, p1_board, p2_board)

check_diag_up(p1_board, p2_board) ==
    score_windows_from(diag_up_masks, 1, p1_board, p2_board)

score_all_windows(p1_board, p2_board) ==
    check_horizontal(p1_board, p2_board) + check_vertical(p1_board, p2_board)
        + check_diag_down(p1_board, p2_board) + check_diag_up(p1_board, p2_board)

score_column(p1_board, p2_board, column) ==
    LET col_mask == {idx(row, column) : row \in 0..(ROWS - 1)}
        num_p1_chips == count_player_chips(p1_board, col_mask)
        num_p2_chips == count_player_chips(p2_board, col_mask)
    IN  COL_WEIGHTS[column + 1] * (num_p1_chips - num_p2_chips)

RECURSIVE SumColumns(_, _, _)
SumColumns(col, p1_board, p2_board) ==
    IF col >= COLS THEN 0
    ELSE score_column(p1_board, p2_board, col) + SumColumns(col + 1, p1_board, p2_board)

center_control_score(p1_board, p2_board) == SumColumns(0, p1_board, p2_board)

evaluate(s) ==
    LET p1_board == s.player_bb
        p2_board == p2_bb(s)
        tv == c4_terminal_value(s)
    IN  IF is_some(tv) THEN unwrap(tv) * 1000000
        ELSE score_all_windows(p1_board, p2_board)
                 + center_control_score(p1_board, p2_board)

\* Mutant: the boards are not swapped for Player2, so Player1 is always taken
\* to be the side to move.
move_ordering_key_connect4_p1_only(s, col) ==
    LET bit == next_bit(s, col)
        curr_after == BitOr(s.player_bb, bit)
        opp_after == BitOr(p2_bb(s), bit)
    IN  IF check_win(curr_after) THEN 1000000
        ELSE IF check_win(opp_after) THEN 10000
        ELSE COL_WEIGHTS[col + 1]

move_ordering_key_connect4(s, col) ==
    LET bit == next_bit(s, col)
        p1 == s.player_bb
        p2 == p2_bb(s)
        curr_after == IF s.current_player = "Player1" THEN BitOr(p1, bit) ELSE BitOr(p2, bit)
        opp_after == IF s.current_player = "Player1" THEN BitOr(p2, bit) ELSE BitOr(p1, bit)
    IN  IF check_win(curr_after) THEN 1000000
        ELSE IF check_win(opp_after) THEN 10000
        ELSE COL_WEIGHTS[col + 1]

\* parse_c4_move, whose code is not in c4_bitboard.rs: a single integer 0-6
\* denoting a non-full column; anything else is rejected.
parse_c4_move(input, state) ==
    LET clean == trim(input)
        col == parse_usize(clean)
    IN  IF is_err(col) THEN Err("Could not parse input as a number in 0..=6")
        ELSE IF col.value > 6 THEN Err("Column must be between 0 and 6")
        ELSE IF state.heights[col.value] >= ROWS THEN Err("Column is full.")
        ELSE Ok(col.value)

(***************************************************************************)
(* games/c4.rs: the array-based ConnectFourState.  Its names carry the     *)
(* prefix array_ where the bitboard module has a function of the same name.*)
(***************************************************************************)
C4Cell == {"Empty", "P1", "P2"}

array_new ==
    [board |-> [i \in 0..(ROWS * COLS - 1) |-> "Empty"],
     heights |-> [c \in 0..(COLS - 1) |-> 0],
     current_player |-> "Player1"]

\* Row-major, row 0 at the top.
array_idx(row, col) == row * COLS + col

array_check_line(s, idxs) ==
    IF \A k \in 1..4 : s.board[idxs[k]] = "P1" THEN Some("Player1")
    ELSE IF \A k \in 1..4 : s.board[idxs[k]] = "P2" THEN Some("Player2")
    ELSE None

\* The nested for loops of a check_* function: the lines in the order they
\* are visited, and the first one check_line reports.
RECURSIVE array_first_line(_, _, _)
array_first_line(s, lines, k) ==
    IF k > Len(lines) THEN None
    ELSE LET p == array_check_line(s, lines[k])
         IN  IF is_some(p) THEN p ELSE array_first_line(s, lines, k + 1)

\* for col in 0..=(COLS - WIN_LENGTH) { for row in 0..ROWS { ... } }
array_check_horizontal(s) ==
    array_first_line(s,
        [k \in 1..((COLS - WIN_LENGTH + 1) * ROWS) |->
            LET col == (k - 1) \div ROWS
                row == (k - 1) % ROWS
            IN  [i \in 1..4 |-> array_idx(row, col + i - 1)]], 1)

\* for col in 0..COLS { for row in 0..=(ROWS - WIN_LENGTH) { ... } }
array_check_vertical(s) ==
    array_first_line(s,
        [k \in 1..(COLS * (ROWS - WIN_LENGTH + 1)) |->
            LET col == (k - 1) \div (ROWS - WIN_LENGTH + 1)
                row == (k - 1) % (ROWS - WIN_LENGTH + 1)
            IN  [i \in 1..4 |-> array_idx(row + i - 1, col)]], 1)

\* for col in 0..=(COLS - WIN_LENGTH) { for row in 0..=(ROWS - WIN_LENGTH) { ... } }
array_check_diag_down(s) ==
    array_first_line(s,
        [k \in 1..((COLS - WIN_LENGTH + 1) * (ROWS - WIN_LENGTH + 1)) |->
            LET col == (k - 1) \div (ROWS - WIN_LENGTH + 1)
                row == (k - 1) % (ROWS - WIN_LENGTH + 1)
            IN  [i \in 1..4 |-> array_idx(row + i - 1, col + i - 1)]], 1)

\* for col in 0..=(COLS - WIN_LENGTH) { for row in (WIN_LENGTH - 1)..ROWS { ... } }
array_check_diag_up(s) ==
    array_first_line(s,
        [k \in 1..((COLS - WIN_LENGTH + 1) * (ROWS - WIN_LENGTH + 1)) |->
            LET col == (k - 1) \div (ROWS - WIN_LENGTH + 1)
                row == (WIN_LENGTH - 1) + ((k - 1) % (ROWS - WIN_LENGTH + 1))
            IN  [i \in 1..4 |-> array_idx(row - (i - 1), col + i - 1)]], 1)

array_winner(s) ==
    IF is_some(array_check_horizontal(s)) THEN array_check_horizontal(s)
    ELSE IF is_some(array_check_vertical(s)) THEN array_check_vertical(s)
    ELSE IF is_some(array_check_diag_down(s)) THEN array_check_diag_down(s)
    ELSE IF is_some(array_check_diag_up(s)) THEN array_check_diag_up(s)
    ELSE None

array_legal_moves(s) ==
    SelectSeq(<<0, 1, 2, 3, 4, 5, 6>>, LAMBDA c : s.heights[c] < ROWS)

\* Mutant: the disc is put at row heights[col], counted from the top.
array_apply_move_from_top(s, col) ==
    LET row == s.heights[col]
    IN  [board |-> [s.board EXCEPT ![array_idx(row, col)] =
                        IF s.current_player = "Player1" THEN "P1" ELSE "P2"],
         heights |-> [s.heights EXCEPT ![col] = @ + 1],
         current_player |-> opposite_player(s.current_player)]

array_apply_move(s, col) ==
    LET row == (ROWS - 1) - s.heights[col]
    IN  [board |-> [s.board EXCEPT ![array_idx(row, col)] =
                        IF s.current_player = "Player1" THEN "P1" ELSE "P2"],
         heights |-> [s.heights EXCEPT ![col] = @ + 1],
         current_player |-> opposite_player(s.current_player)]

array_board_filled(s) == \A i \in 0..(ROWS * COLS - 1) : s.board[i] # "Empty"

array_is_terminal(s) == is_some(array_winner(s)) \/ array_board_filled(s)

array_terminal_value(s) ==
    IF is_some(array_winner(s))
    THEN Some(IF unwrap(array_winner(s)) = "Player1" THEN 1 ELSE -1)
    ELSE IF array_board_filled(s) THEN Some(0)
    ELSE None

(***************************************************************************)
(* game.rs: the GameState contract, dispatched on the implementing type    *)
(***************************************************************************)
IsTtt(s) == "board" \in DOMAIN s

current_player(s) == s.current_player

legal_moves(s) == IF IsTtt(s) THEN ttt_legal_moves(s) ELSE c4_legal_moves(s)

apply_move(s, mv) == IF IsTtt(s) THEN ttt_apply_move(s, mv) ELSE apply_column_move(s, mv)

is_terminal(s) == IF IsTtt(s) THEN ttt_is_terminal(s) ELSE c4_is_terminal(s)

terminal_value(s) == IF IsTtt(s) THEN ttt_terminal_value(s) ELSE c4_terminal_value(s)

heuristic_value(s) == IF IsTtt(s) THEN ttt_heuristic_value(s) ELSE evaluate(s)

move_ordering_key(s, mv) ==
    IF IsTtt(s) THEN ttt_move_ordering_key(s, mv) ELSE move_ordering_key_connect4(s, mv)

(***************************************************************************)
(* solvers/minimax.rs                                                      *)
(***************************************************************************)
Max(a, b) == IF a >= b THEN a ELSE b

Min(a, b) == IF a <= b THEN a ELSE b

SetMax(S) == CHOOSE x \in S : \A y \in S : y <= x

SetMin(S) == CHOOSE x \in S : \A y \in S : x <= y

\* moves.sort_by_key(|m| Reverse(state.move_ordering_key(m))): a stable sort,
\* larger keys first, equal keys in their legal_moves() order.
insert_by_key(s, acc, mv) ==
    LET key == move_ordering_key(s, mv)
        n == Cardinality({j \in 1..Len(acc) : move_ordering_key(s, acc[j]) >= key})
    IN  SubSeq(acc, 1, n) \o <<mv>> \o SubSeq(acc, n + 1, Len(acc))

RECURSIVE sort_from(_, _, _, _)
sort_from(s, moves, k, acc) ==
    IF k > Len(moves) THEN acc
    ELSE sort_from(s, moves, k + 1, insert_by_key(s, acc, moves[k]))

\* Mutant: the order is turned round when Player2 is to move.
sort_by_key_by_side(s, moves) ==
    LET sorted == sort_from(s, moves, 1, <<>>)
    IN  IF current_player(s) = "Player1" THEN sorted
        ELSE [k \in 1..Len(sorted) |-> sorted[Len(sorted) + 1 - k]]

sort_by_key_reverse(s, moves) == sort_from(s, moves, 1, <<>>)

maximizing(s) == current_player(s) = "Player1"

RECURSIVE minimax_value(_)
minimax_value(s) ==
    IF is_terminal(s)
    THEN unwrap(terminal_value(s))
    ELSE LET moves == legal_moves(s)
             mvs == {minimax_value(apply_move(s, moves[k])) : k \in DOMAIN moves}
         IN  IF current_player(s) = "Player1" THEN SetMax(mvs) ELSE SetMin(mvs)

\* best_move.map(|m| (m, best_value))
with_value(best_move, best_value) ==
    IF is_some(best_move) THEN Some(<<unwrap(best_move), best_value>>) ELSE None

\* The for loop of minimax_best_move from the k-th move on.
RECURSIVE minimax_best_move_loop(_, _, _, _, _)
\* Mutant: is_better ignores which side is to move.
minimax_best_move_loop_max_only(s, moves, k, best_value, best_move) ==
    IF k > Len(moves) THEN with_value(best_move, best_value)
    ELSE LET child_value == minimax_value(apply_move(s, moves[k]))
         IN  IF child_value > best_value
             THEN minimax_best_move_loop(s, moves, k + 1, child_value, Some(moves[k]))
             ELSE minimax_best_move_loop(s, moves, k + 1, best_value, best_move)

minimax_best_move_loop(s, moves, k, best_value, best_move) ==
    IF k > Len(moves) THEN with_value(best_move, best_value)
    ELSE LET child_value == minimax_value(apply_move(s, moves[k]))
             is_better == IF maximizing(s) THEN child_value > best_value
                          ELSE child_value < best_value
         IN  IF is_better
             THEN minimax_best_move_loop(s, moves, k + 1, child_value, Some(moves[k]))
             ELSE minimax_best_move_loop(s, moves, k + 1, best_value, best_move)

minimax_best_move(s) ==
    LET moves == legal_moves(s)
    IN  IF Len(moves) = 0 THEN None
        ELSE minimax_best_move_loop(s, moves, 1,
                 IF maximizing(s) THEN I32_MIN ELSE I32_MAX, None)

\* minimax_value_ab and the for loop of its body from the k-th sorted move on.
RECURSIVE minimax_value_ab(_, _, _)
RECURSIVE minimax_value_ab_loop(_, _, _, _, _, _)
\* Mutant: on a cutoff the loop breaks before the child's value is folded
\* into value.
minimax_value_ab_loop_stale(s, moves, k, value, alpha, beta) ==
    IF k > Len(moves) THEN value
    ELSE LET child_value == minimax_value_ab(apply_move(s, moves[k]), alpha, beta)
             value2 == IF maximizing(s) THEN Max(value, child_value)
                       ELSE Min(value, child_value)
             alpha2 == IF maximizing(s) THEN Max(alpha, value2) ELSE alpha
             beta2 == IF maximizing(s) THEN beta ELSE Min(beta, value2)
         IN  IF alpha2 >= beta2 THEN value
             ELSE minimax_value_ab_loop(s, moves, k + 1, value2, alpha2, beta2)

minimax_value_ab_loop(s, moves, k, value, alpha, beta) ==
    IF k > Len(moves) THEN value
    ELSE LET child_value == minimax_value_ab(apply_move(s, moves[k]), alpha, beta)
             value2 == IF maximizing(s) THEN Max(value, child_value)
                       ELSE Min(value, child_value)
             alpha2 == IF maximizing(s) THEN Max(alpha, value2) ELSE alpha
             beta2 == IF maximizing(s) THEN beta ELSE Min(beta, value2)
         IN  IF alpha2 >= beta2 THEN value2
             ELSE minimax_value_ab_loop(s, moves, k + 1, value2, alpha2, beta2)

minimax_value_ab(s, alpha, beta) ==
    IF is_terminal(s)
    THEN unwrap(terminal_value(s))
    ELSE minimax_value_ab_loop(s, sort_by_key_reverse(s, legal_moves(s)), 1,
             IF maximizing(s) THEN I32_MIN ELSE I32_MAX, alpha, beta)

minimax_value_ab_root(s) == minimax_value_ab(s, I32_MIN, I32_MAX)

\* The for loop of minimax_best_move_ab_inner from the k-th sorted move on.
RECURSIVE minimax_best_move_ab_loop(_, _, _, _, _, _, _)
\* Mutant: is_better also takes a child of equal value.
minimax_best_move_ab_loop_last_tie(s, moves, k, best_value, best_move, alpha, beta) ==
    IF k > Len(moves) THEN with_value(best_move, best_value)
    ELSE LET child_value == minimax_value_ab(apply_move(s, moves[k]), alpha, beta)
             is_better == IF maximizing(s) THEN child_value >= best_value
                          ELSE child_value <= best_value
             best_value2 == IF is_better THEN child_value ELSE best_value
             best_move2 == IF is_better THEN Some(moves[k]) ELSE best_move
             alpha2 == IF maximizing(s) THEN Max(alpha, best_value2) ELSE alpha
             beta2 == IF maximizing(s) THEN beta ELSE Min(beta, best_value2)
         IN  IF alpha2 >= beta2 THEN with_value(best_move2, best_value2)
             ELSE minimax_best_move_ab_loop(s, moves, k + 1, best_value2, best_move2,
                      alpha2, beta2)

minimax_best_move_ab_loop(s, moves, k, best_value, best_move, alpha, beta) ==
    IF k > Len(moves) THEN with_value(best_move, best_value)
    ELSE LET child_value == minimax_value_ab(apply_move(s, moves[k]), alpha, beta)
             is_better == IF maximizing(s) THEN child_value > best_value
                          ELSE child_value < best_value
             best_value2 == IF is_better THEN child_value ELSE best_value
             best_move2 == IF is_better THEN Some(moves[k]) ELSE best_move
             alpha2 == IF maximizing(s) THEN Max(alpha, best_value2) ELSE alpha
             beta2 == IF maximizing(s) THEN beta ELSE Min(beta, best_value2)
         IN  IF alpha2 >= beta2 THEN with_value(best_move2, best_value2)
             ELSE minimax_best_move_ab_loop(s, moves, k + 1, best_value2, best_move2,
                      alpha2, beta2)

minimax_best_move_ab_inner(s, alpha, beta) ==
    LET moves == legal_moves(s)
    IN  IF Len(moves) = 0 THEN None
        ELSE minimax_best_move_ab_loop(s, sort_by_key_reverse(s, moves), 1,
                 IF maximizing(s) THEN I32_MIN ELSE I32_MAX, None, alpha, beta)

minimax_best_move_ab(s) == minimax_best_move_ab_inner(s, I32_MIN, I32_MAX)

\* minimax_value_ab_depth and the for loop of its body from the k-th sorted move on.
RECURSIVE minimax_value_ab_depth(_, _, _, _)
RECURSIVE minimax_value_ab_depth_loop(_, _, _, _, _, _, _)
\* Mutant: the minimizing side also takes the maximum.
minimax_value_ab_depth_loop_always_max(s, depth, moves, k, value, alpha, beta) ==
    IF k > Len(moves) THEN value
    ELSE LET child_value ==
                 minimax_value_ab_depth(apply_move(s, moves[k]), depth - 1, alpha, beta)
             value2 == IF maximizing(s) THEN Max(value, child_value)
                       ELSE Max(-value, child_value)
             alpha2 == IF maximizing(s) THEN Max(alpha, value2) ELSE alpha
             beta2 == IF maximizing(s) THEN beta ELSE Min(beta, value2)
         IN  IF alpha2 >= beta2 THEN value2
             ELSE minimax_value_ab_depth_loop(s, depth, moves, k + 1, value2, alpha2, beta2)

\* Mutant: the depth-0 leaf is scaled like a terminal value.
minimax_value_ab_depth_scaled_leaf(s, depth, alpha, beta) ==
    LET tv == terminal_value(s)
    IN  IF is_some(tv) THEN unwrap(tv) * 1000000
        ELSE IF depth = 0 THEN heuristic_value(s) * 1000000
        ELSE minimax_value_ab_depth_loop(s, depth, sort_by_key_reverse(s, legal_moves(s)),
                 1, IF maximizing(s) THEN I32_MIN ELSE I32_MAX, alpha, beta)

\* Mutant: the terminal value is returned unscaled.
minimax_value_ab_depth_unscaled(s, depth, alpha, beta) ==
    LET tv == terminal_value(s)
    IN  IF is_some(tv) THEN unwrap(tv)
        ELSE IF depth = 0 THEN heuristic_value(s)
        ELSE minimax_value_ab_depth_loop(s, depth, sort_by_key_reverse(s, legal_moves(s)),
                 1, IF maximizing(s) THEN I32_MIN ELSE I32_MAX, alpha, beta)

minimax_value_ab_depth_loop(s, depth, moves, k, value, alpha, beta) ==
    IF k > Len(moves) THEN value
    ELSE LET child_value ==
                 minimax_value_ab_depth(apply_move(s, moves[k]), depth - 1, alpha, beta)
             value2 == IF maximizing(s) THEN Max(value, child_value)
                       ELSE Min(value, child_value)
             alpha2 == IF maximizing(s) THEN Max(alpha, value2) ELSE alpha
             beta2 == IF maximizing(s) THEN beta ELSE Min(beta, value2)
         IN  IF alpha2 >= beta2 THEN value2
             ELSE minimax_value_ab_depth_loop(s, depth, moves, k + 1, value2, alpha2, beta2)

minimax_value_ab_depth(s, depth, alpha, beta) ==
    LET tv == terminal_value(s)
    IN  IF is_some(tv) THEN unwrap(tv) * 1000000
        ELSE IF depth = 0 THEN heuristic_value(s)
        ELSE minimax_value_ab_depth_loop(s, depth, sort_by_key_reverse(s, legal_moves(s)),
                 1, IF maximizing(s) THEN I32_MIN ELSE I32_MAX, alpha, beta)

minimax_value_ab_depth_root(s, depth) == minimax_value_ab_depth(s, depth, I32_MIN, I32_MAX)

\* The for loop of minimax_best_move_ab_depth_inner from the k-th sorted move on.
RECURSIVE minimax_best_move_ab_depth_loop(_, _, _, _, _, _, _, _)
\* Mutant: is_better ignores which side is to move.
minimax_best_move_ab_depth_loop_max_only(s, depth, moves, k, best_value, best_move, alpha, beta) ==
    IF k > Len(moves) THEN with_value(best_move, best_value)
    ELSE LET child_value ==
                 minimax_value_ab_depth(apply_move(s, moves[k]), depth - 1, alpha, beta)
             is_better == child_value > best_value
             best_value2 == IF is_better THEN child_value ELSE best_value
             best_move2 == IF is_better THEN Some(moves[k]) ELSE best_move
             alpha2 == IF maximizing(s) THEN Max(alpha, best_value2) ELSE alpha
             beta2 == IF maximizing(s) THEN beta ELSE Min(beta, best_value2)
         IN  IF alpha2 >= beta2 THEN with_value(best_move2, best_value2)
             ELSE minimax_best_move_ab_depth_loop(s, depth, moves, k + 1, best_value2,
                      best_move2, alpha2, beta2)

minimax_best_move_ab_depth_loop(s, depth, moves, k, best_value, best_move, alpha, beta) ==
    IF k > Len(moves) THEN with_value(best_move, best_value)
    ELSE LET child_value ==
                 minimax_value_ab_depth(apply_move(s, moves[k]), depth - 1, alpha, beta)
             is_better == IF maximizing(s) THEN child_value > best_value
                          ELSE child_value < best_value
             best_value2 == IF is_better THEN child_value ELSE best_value
             best_move2 == IF is_better THEN Some(moves[k]) ELSE best_move
             alpha2 == IF maximizing(s) THEN Max(alpha, best_value2) ELSE alpha
             beta2 == IF maximizing(s) THEN beta ELSE Min(beta, best_value2)
         IN  IF alpha2 >= beta2 THEN with_value(best_move2, best_value2)
             ELSE minimax_best_move_ab_depth_loop(s, depth, moves, k + 1, best_value2,
                      best_move2, alpha2, beta2)

\* Mutant: None is returned on a terminal state instead of on an empty move list.
minimax_best_move_ab_depth_inner_terminal(s, depth, alpha, beta) ==
    IF is_terminal(s) THEN None
    ELSE minimax_best_move_ab_depth_loop(s, depth, sort_by_key_reverse(s, legal_moves(s)),
             1, IF maximizing(s) THEN I32_MIN ELSE I32_MAX, None, alpha, beta)

minimax_best_move_ab_depth_inner(s, depth, alpha, beta) ==
    LET moves == legal_moves(s)
    IN  IF Len(moves) = 0 THEN None
        ELSE minimax_best_move_ab_depth_loop(s, depth, sort_by_key_reverse(s, moves), 1,
                 IF maximizing(s) THEN I32_MIN ELSE I32_MAX, None, alpha, beta)

minimax_best_move_ab_depth(s, depth) ==
    minimax_best_move_ab_depth_inner(s, depth, I32_MIN, I32_MAX)

\* depth is a u32, and a depth at or above 2^31 is written here as the
\* negative integer with the same 32 bits, so that 0 - 1 is u32::MAX and the
\* depth - 1 and depth == 0 of the searches above are the wrapping ones.
\* minimax_best_move_ab_depth_inner computes depth - 1 for its first child
\* before any test of depth: with depth = 0 the subtraction overflows.
depth_underflows(s, depth) == Len(legal_moves(s)) # 0 /\ depth = 0

\* With overflow checks (debug builds) the overflow panics; without them
\* (release builds) it wraps and the search goes on with depth u32::MAX.
minimax_best_move_ab_depth_panics(s, depth, overflow_checks) ==
    depth_underflows(s, depth) /\ overflow_checks

minimax_best_move_ab_depth_u32(s, depth, overflow_checks) ==
    IF minimax_best_move_ab_depth_panics(s, depth, overflow_checks) THEN Panic
    ELSE Returned(minimax_best_move_ab_depth(s, depth))

\* The number of nested calls below s on the line of first sorted moves, which
\* no cutoff can prune: of minimax_value_ab_depth, and of the best-move query.
RECURSIVE value_first_line(_, _)
value_first_line(s, depth) ==
    IF is_some(terminal_value(s)) \/ depth = 0 \/ Len(legal_moves(s)) = 0 THEN 0
    ELSE 1 + value_first_line(
                 apply_move(s, sort_by_key_reverse(s, legal_moves(s))[1]), depth - 1)

best_move_first_line(s, depth) ==
    IF Len(legal_moves(s)) = 0 THEN 0
    ELSE 1 + value_first_line(
                 apply_move(s, sort_by_key_reverse(s, legal_moves(s))[1]), depth - 1)

(***************************************************************************)
(* The system: a client holding one state of each game and applying moves  *)
(* taken from legal_moves().                                               *)
(***************************************************************************)
\* play_sequence of the bitboard tests: the columns applied in order from new().
RECURSIVE play_from(_, _, _)
play_from(s, cols, k) ==
    IF k > Len(cols) THEN s ELSE play_from(apply_column_move(s, cols[k]), cols, k + 1)

play_sequence(cols) == play_from(c4_new, cols, 1)

\* The scripted games of the test suites (play_sequence), each a sequence of
\* columns applied in order from BitboardState::new().
Scripts ==
    { <<>>,
      <<0, 6, 1, 6, 2, 6>>,
      <<0, 6, 0, 6, 0, 6>>,
      <<0, 1, 1, 2, 2, 3, 2, 3, 3, 0>>,
      <<6, 5, 5, 4, 4, 3, 4, 3, 3, 6>>,
      <<6, 0, 6, 1, 5, 2, 5>>,
      <<3, 3, 3, 3, 3, 3, 2, 4, 2, 4, 2>>,
      <<0, 6, 6, 0, 0, 6, 6, 0, 0, 6, 6, 0, 1, 1, 1, 1, 1, 1,
        4, 2, 2, 4, 4, 2, 2, 4, 4, 2, 2, 4, 5, 3, 3, 5, 5, 3, 3, 5, 5>>,
      <<0, 0, 0, 0, 0, 0, 1, 1, 1, 1, 1, 1, 2, 2, 2, 2, 2, 2, 3, 3, 3, 3, 3, 3,
        4, 4, 4, 4, 4, 4, 5, 5, 5, 5, 5, 5, 6, 6, 6, 6>> }

MaxFree == 3

MaxSearchFree == 1

\* No interactive game is running and nothing has been parsed.
DriverIdle ==
    /\ pc = "client"
    /\ human_is_player1 = TRUE
    /\ ai_depth = 9
    /\ move = None

ParserIdle ==
    /\ repr = <<>>
    /\ parsed = None

Init ==
    /\ game \in {"ttt", "c4"}
    /\ ttt = ttt_new
    /\ c4 = c4_new
    /\ script \in (IF game = "c4" THEN Scripts ELSE {<<>>})
    /\ plies = 0
    /\ free = 0
    /\ limit = MaxFree
    /\ over = FALSE
    /\ DriverIdle
    /\ ParserIdle

\* A client applies a move taken from legal_moves() to its Tic-Tac-Toe state.
TttPlay(mv) ==
    /\ game = "ttt"
    /\ \E k \in DOMAIN ttt_legal_moves(ttt) : ttt_legal_moves(ttt)[k] = mv
    /\ ttt' = ttt_apply_move(ttt, mv)
    /\ over' = (over \/ ttt_is_terminal(ttt))
    /\ plies' = plies + 1
    /\ UNCHANGED <<game, c4, script, free, limit, driver, parser>>

\* play_sequence applies the next column of the script.
C4Script ==
    /\ game = "c4"
    /\ script # <<>>
    /\ c4' = apply_column_move(c4, Head(script))
    /\ script' = Tail(script)
    /\ over' = (over \/ c4_is_terminal(c4))
    /\ plies' = plies + 1
    /\ UNCHANGED <<game, ttt, free, limit, driver, parser>>

\* A client applies a move taken from legal_moves() to its Connect Four state.
C4Play(col) ==
    /\ game = "c4"
    /\ script = <<>>
    /\ free < limit
    /\ \E k \in DOMAIN c4_legal_moves(c4) : c4_legal_moves(c4)[k] = col
    /\ c4' = apply_column_move(c4, col)
    /\ over' = (over \/ c4_is_terminal(c4))
    /\ plies' = plies + 1
    /\ free' = free + 1
    /\ UNCHANGED <<game, ttt, script, limit, driver, parser>>

Next ==
    \/ \E mv \in 0..8 : TttPlay(mv)
    \/ C4Script
    \/ \E col \in 0..(COLS - 1) : C4Play(col)

Spec == Init /\ [][Next]_vars

\* The same system again, for whose turn it is.
SpecTurns == Init /\ [][Next]_vars

\* The same system with the shorter free-play horizon used where every state
\* is searched.
InitSearch ==
    /\ game \in {"ttt", "c4"}
    /\ ttt = ttt_new
    /\ c4 = c4_new
    /\ script \in (IF game = "c4" THEN Scripts ELSE {<<>>})
    /\ plies = 0
    /\ free = 0
    /\ limit = MaxSearchFree
    /\ over = FALSE
    /\ DriverIdle
    /\ ParserIdle

SpecSearch == InitSearch /\ [][Next]_vars

\* The same states again, for what the searches return where they stop.
SpecCutoff == InitSearch /\ [][Next]_vars

\* The same states again, for the range of the values the searches return.
SpecRange == InitSearch /\ [][Next]_vars

\* The same states again, for the search compared with one that prunes nothing.
SpecPlain == InitSearch /\ [][Next]_vars

\* The Tic-Tac-Toe game alone.
InitTtt == Init /\ game = "ttt"

NextTtt == \E mv \in 0..8 : TttPlay(mv)

SpecTtt == InitTtt /\ [][NextTtt]_vars

\* The same game again, for the move the exact searches choose among equals.
SpecTies == InitTtt /\ [][NextTtt]_vars

\* The same game again, for searches started with a narrowed window.
SpecWindow == InitTtt /\ [][NextTtt]_vars

\* A client that calls apply_move with any move value, legal or not, on a
\* state reached by legal moves; the call panics or returns the new state.
MaxMoveArg == 9

TttApplyAny(index) ==
    /\ game = "ttt"
    /\ pc = "client"
    /\ move' = Some(index)
    /\ plies' = plies + 1
    /\ IF ttt_apply_move_u8(ttt, index).panicked
       THEN pc' = "panic" /\ ttt' = ttt
       ELSE pc' = "returned" /\ ttt' = ttt_apply_move_u8(ttt, index).value
    /\ UNCHANGED <<game, c4, script, free, limit, over, human_is_player1, ai_depth, parser>>

C4ApplyAny(col) ==
    /\ game = "c4"
    /\ pc = "client"
    /\ script = <<>>
    /\ move' = Some(col)
    /\ plies' = plies + 1
    /\ IF apply_column_move_u8(c4, col).panicked
       THEN pc' = "panic" /\ c4' = c4
       ELSE pc' = "returned" /\ c4' = apply_column_move_u8(c4, col).value
    /\ UNCHANGED <<game, ttt, script, free, limit, over, human_is_player1, ai_depth, parser>>

NextMisuse ==
    \/ pc = "client" /\ Next
    \/ \E index \in 0..MaxMoveArg : TttApplyAny(index)
    \/ \E col \in 0..MaxMoveArg : C4ApplyAny(col)

SpecMisuse == Init /\ [][NextMisuse]_vars

\* A caller of TicTacToeState::from_str: the characters of repr are chosen one
\* by one, then repr is parsed for one of the players.  The inputs are the
\* strings of at most MaxReprLen characters with at most one character that
\* is not a cell character.
Chars == {"X", "O", ".", "Z"}

CellChars == {"X", "O", "."}

MaxReprLen == 10

InitParse ==
    /\ game = "parse"
    /\ ttt = ttt_new
    /\ c4 = c4_new
    /\ script = <<>>
    /\ plies = 0
    /\ free = 0
    /\ limit = 0
    /\ over = FALSE
    /\ DriverIdle
    /\ ParserIdle

TypeChar(ch) ==
    /\ game = "parse"
    /\ parsed = None
    /\ Len(repr) < MaxReprLen
    /\ ch \in CellChars \/ \A k \in DOMAIN repr : repr[k] \in CellChars
    /\ repr' = Append(repr, ch)
    /\ UNCHANGED <<game, ttt, c4, script, plies, free, limit, over, driver, parsed>>

FromStr(player) ==
    /\ game = "parse"
    /\ parsed = None
    /\ parsed' = Some([current_player |-> player, result |-> from_str(repr, player)])
    /\ UNCHANGED <<game, ttt, c4, script, plies, free, limit, over, driver, repr>>

NextParse ==
    \/ \E ch \in Chars : TypeChar(ch)
    \/ \E player \in Player : FromStr(player)

SpecParse == InitParse /\ [][NextParse]_vars

\* The bitboard Connect Four game alone.
InitC4 == Init /\ game = "c4"

NextC4 ==
    \/ C4Script
    \/ \E col \in 0..(COLS - 1) : C4Play(col)

SpecC4 == InitC4 /\ [][NextC4]_vars

\* check_win takes any u64.  The boards given to it here are built bit by
\* bit in player_bb, from the empty board and from a board of two blocks of
\* nine cells that holds no line, with the sentinel bits and the bits from 49
\* up left clear.
MaxBits == 4

SeedBoards ==
    {{}, {idx(row, col) : row \in 0..2, col \in 0..2} \cup {idx(row, col) : row \in 3..5, col \in 4..6}}

InitBoards ==
    /\ game = "bits"
    /\ ttt = ttt_new
    /\ \E seed \in SeedBoards : c4 = [c4_new EXCEPT !.player_bb = seed, !.mask_bb = seed]
    /\ script = <<>>
    /\ plies = 0
    /\ free = 0
    /\ limit = MaxBits
    /\ over = FALSE
    /\ DriverIdle
    /\ ParserIdle

SetBit(row, col) ==
    /\ game = "bits"
    /\ free < limit
    /\ idx(row, col) \notin c4.player_bb
    /\ c4' = [c4 EXCEPT !.player_bb = BitOr(@, Bit(idx(row, col))),
                        !.mask_bb = BitOr(@, Bit(idx(row, col)))]
    /\ free' = free + 1
    /\ UNCHANGED <<game, ttt, script, plies, limit, over, driver, parser>>

NextBoards == \E row \in 0..(ROWS - 1), col \in 0..(COLS - 1) : SetBit(row, col)

SpecBoards == InitBoards /\ [][NextBoards]_vars

(***************************************************************************)
(* main.rs: the human-vs-AI loops play_ttt_human_vs_ai, play_c4_human_vs_ai *)
(***************************************************************************)
\* The lines a human types: every single digit, and some lines the parser
\* has to trim or to reject.
InputLines ==
    {<<Digits[k], "\n">> : k \in 1..10}
        \cup {<<"\n">>, <<"x", "\n">>, <<" ", "4", " ", "\n">>, <<"1", "0", "\n">>,
              <<"+", "2", "\n">>, <<"-", "1", "\n">>}

\* The depths given to prompt_ai_depth.  Connect Four is played at the small
\* depths only: deeper searches of its positions are out of reach here.
TttDepths == {0, 1, 2, 9}

C4Depths == {1, 2}

\* In Connect Four the human chooses MaxDriverFree columns freely and then
\* keeps to one order of preference, playing its first column that is open.
MaxDriverFree == 1

HumanOrders == {<<0, 1, 2, 3, 4, 5, 6>>, <<6, 5, 4, 3, 2, 1, 0>>, <<3, 2, 4, 1, 5, 0, 6>>}

InitDriver ==
    /\ game \in {"ttt", "c4"}
    /\ ttt = ttt_new
    /\ c4 = c4_new
    /\ human_is_player1 \in BOOLEAN
    /\ ai_depth \in (IF game = "ttt" THEN TttDepths ELSE C4Depths)
    /\ script \in (IF game = "c4" THEN HumanOrders ELSE {<<>>})
    /\ limit = MaxDriverFree
    /\ pc = "loop"
    /\ move = None
    /\ plies = 0
    /\ free = 0
    /\ over = FALSE
    /\ ParserIdle

DriverState == IF game = "ttt" THEN ttt ELSE c4

human_turn(state) ==
    \/ current_player(state) = "Player1" /\ human_is_player1
    \/ current_player(state) = "Player2" /\ ~human_is_player1

\* state = state.apply_move(&mv)
DriverApplies(mv) ==
    /\ move' = Some(mv)
    /\ plies' = plies + 1
    /\ IF game = "ttt"
       THEN ttt' = apply_move(ttt, mv) /\ c4' = c4
       ELSE c4' = apply_move(c4, mv) /\ ttt' = ttt

\* Mutant: the loop breaks on the negated test, !is_terminal().
DriverLoopTop_negated ==
    /\ pc = "loop"
    /\ pc' = IF ~is_terminal(DriverState) THEN "game_over"
             ELSE IF human_turn(DriverState) THEN "human" ELSE "ai"
    /\ UNCHANGED <<game, ttt, c4, script, plies, free, limit, over,
                   human_is_player1, ai_depth, move, parser>>

\* The top of the loop: break on a terminal state, else whose turn it is.
DriverLoopTop ==
    /\ pc = "loop"
    /\ pc' = IF is_terminal(DriverState) THEN "game_over"
             ELSE IF human_turn(DriverState) THEN "human" ELSE "ai"
    /\ UNCHANGED <<game, ttt, c4, script, plies, free, limit, over,
                   human_is_player1, ai_depth, move, parser>>

\* The line the human types next in Connect Four once the free choices are
\* used: the first open column in the order of preference.
preferred_line ==
    LET k == CHOOSE j \in 1..Len(script) :
                 /\ c4.heights[script[j]] < ROWS
                 /\ \A i \in 1..(j - 1) : c4.heights[script[i]] >= ROWS
    IN  <<Digits[script[k] + 1], "\n">>

\* The human's turn: a line is read and parsed; Ok applies the move, Err
\* prints the message and prompts again.
HumanEnters(input) ==
    /\ pc \in {"human", "reprompt"}
    /\ (game = "c4" /\ free >= limit) => input = preferred_line
    /\ LET r == IF game = "ttt" THEN parse_ttt_move(input, ttt)
                ELSE parse_c4_move(input, c4)
       IN  IF is_ok(r)
           THEN /\ DriverApplies(r.value)
                /\ pc' = "loop"
                /\ free' = IF game = "c4" /\ free < limit THEN free + 1 ELSE free
           ELSE /\ pc' = "reprompt"
                /\ UNCHANGED <<ttt, c4, plies, free, move>>
    /\ UNCHANGED <<game, script, limit, over, human_is_player1, ai_depth, parser>>

\* The AI's turn: Some((mv, value)) applies mv, None breaks out of the loop;
\* the depth - 1 of a depth 0 panics or wraps with the build.
AiMoves ==
    /\ pc = "ai"
    /\ \E overflow_checks \in
           (IF depth_underflows(DriverState, ai_depth) THEN BOOLEAN ELSE {TRUE}) :
           LET r == minimax_best_move_ab_depth_u32(DriverState, ai_depth, overflow_checks)
           IN  IF r.panicked
               THEN pc' = "panic" /\ UNCHANGED <<ttt, c4, plies, move>>
               ELSE IF is_some(r.value)
               THEN DriverApplies(unwrap(r.value)[1]) /\ pc' = "loop"
               ELSE pc' = "ai_no_moves" /\ UNCHANGED <<ttt, c4, plies, move>>
    /\ UNCHANGED <<game, script, free, limit, over, human_is_player1, ai_depth, parser>>

\* After the loop: the match on terminal_value().
DriverReports ==
    /\ pc \in {"game_over", "ai_no_moves"}
    /\ LET tv == terminal_value(DriverState)
       IN  pc' = CASE tv = Some(1) -> "player1_wins"
                   [] tv = Some(-1) -> "player2_wins"
                   [] tv = Some(0) -> "draw"
                   [] tv = None -> "non_terminal_at_end"
                   [] OTHER -> "panic"
    /\ UNCHANGED <<game, ttt, c4, script, plies, free, limit, over,
                   human_is_player1, ai_depth, move, parser>>

\* The human eventually enters a line that the parser accepts.
HumanEntersValid == \E input \in InputLines : HumanEnters(input) /\ pc' = "loop"

NextDriver ==
    \/ DriverLoopTop
    \/ \E input \in InputLines : HumanEnters(input)
    \/ AiMoves
    \/ DriverReports

\* The search call returns (or panics): the program does not stay at the AI's
\* turn forever.  AiMoves is enabled exactly when pc = "ai" and every AiMoves
\* step leaves pc = "ai", so this is WF_vars(AiMoves) written over states.
AiTurnEnds == []<>(pc # "ai")

\* The loop is sequential code, so each of its steps is taken once it is
\* reached; the human is assumed to enter a valid move eventually.
SpecDriver ==
    /\ InitDriver
    /\ [][NextDriver]_vars
    /\ WF_vars(DriverLoopTop)
    /\ WF_vars(HumanEntersValid)
    /\ AiTurnEnds
    /\ WF_vars(DriverReports)

\* play_ttt_human_vs_ai alone, against the shallow searches.
InitTttDriver == InitDriver /\ game = "ttt" /\ ai_depth \in {1, 2}

SpecTttDriver == InitTttDriver /\ [][NextDriver]_vars

(***************************************************************************)
(* Properties                                                              *)
(***************************************************************************)
MaxDepth == 9

\* The layout of a 9-character board string ('.', 'X', 'O'), cell by cell.
BoardOf(str) ==
    [i \in 0..8 |-> IF str[i + 1] = "X" THEN "X" ELSE IF str[i + 1] = "O" THEN "O" ELSE "Empty"]

EmptyCells(s) == Cardinality({i \in 0..8 : s.board[i] = "Empty"})

\* C1: in every Tic-Tac-Toe state and every bitboard Connect Four state reached
\* from new() by legal moves, is_terminal() is true exactly when
\* terminal_value() is Some.
C1_TerminalIffValue ==
    /\ ttt_is_terminal(ttt) <=> is_some(ttt_terminal_value(ttt))
    /\ c4_is_terminal(c4) <=> is_some(c4_terminal_value(c4))

\* A drawn (full, no line) Tic-Tac-Toe board: terminal only through the
\* board-filled test, with value Some(0).
C1_Witness ==
    /\ game = "ttt"
    /\ ttt_is_terminal(ttt)
    /\ ttt_terminal_value(ttt) = Some(0)

\* C2: on every reachable Tic-Tac-Toe state, alpha-beta with move ordering from
\* the full window returns the value of exhaustive minimax.
C2_AlphaBetaEqualsMinimax ==
    game = "ttt" => minimax_value_ab_root(ttt) = minimax_value(ttt)

\* The board "XOX.XO..." with Player2 to move, where both searches return +1.
C2_Witness ==
    /\ game = "ttt"
    /\ ttt.board = BoardOf(<<"X", "O", "X", ".", "X", "O", ".", ".", ".">>)
    /\ ttt.current_player = "Player2"
    /\ minimax_value_ab_root(ttt) = 1
    /\ minimax_value(ttt) = 1

\* C3: from the empty Tic-Tac-Toe board with Player1 to move, minimax_value and
\* minimax_value_ab_root both return 0.
C3_EmptyBoardIsDraw ==
    (game = "ttt" /\ ttt = ttt_new) =>
        /\ minimax_value(ttt) = 0
        /\ minimax_value_ab_root(ttt) = 0

C3_Witness ==
    /\ game = "ttt"
    /\ ttt = ttt_new
    /\ ttt.current_player = "Player1"
    /\ minimax_value(ttt) = 0

\* C4: on every reachable Tic-Tac-Toe state, for every depth from the number of
\* empty cells up to MaxDepth, the depth-limited alpha-beta root value is the
\* exact alpha-beta root value times 1,000,000.
C4_FullDepthMatchesExact ==
    game = "ttt" =>
        \A d \in EmptyCells(ttt)..MaxDepth :
            minimax_value_ab_depth_root(ttt, d) = minimax_value_ab_root(ttt) * 1000000

\* A non-terminal state searched exactly as deep as it has empty cells, with a
\* decided (non-zero) value.
C4_Witness ==
    /\ game = "ttt"
    /\ ~ttt_is_terminal(ttt)
    /\ minimax_value_ab_depth_root(ttt, EmptyCells(ttt)) = -1000000
    /\ minimax_value_ab_root(ttt) = -1

\* C5: on every reachable non-terminal Tic-Tac-Toe state, minimax_best_move
\* returns Some((mv, v)) with v = minimax_value(state), mv a legal move, and
\* minimax_value of the state after mv equal to v.
C5_BestMoveAgreesWithValue ==
    (game = "ttt" /\ ~ttt_is_terminal(ttt)) =>
        LET r == minimax_best_move(ttt)
        IN  /\ is_some(r)
            /\ unwrap(r)[2] = minimax_value(ttt)
            /\ \E k \in DOMAIN legal_moves(ttt) : legal_moves(ttt)[k] = unwrap(r)[1]
            /\ minimax_value(apply_move(ttt, unwrap(r)[1])) = unwrap(r)[2]

\* A non-terminal state whose best move is not the first legal move.
C5_Witness ==
    /\ game = "ttt"
    /\ ~ttt_is_terminal(ttt)
    /\ is_some(minimax_best_move(ttt))
    /\ unwrap(minimax_best_move(ttt))[1] # legal_moves(ttt)[1]
    /\ unwrap(minimax_best_move(ttt))[2] = minimax_value(ttt)

MaxSearchDepth == 2

MaxExactEmpty == 4

SeqElems(q) == {q[k] : k \in DOMAIN q}

\* What a best-move query must return on s: None without legal moves, else
\* Some((mv, v)) with mv one of the legal moves.
BestMoveWellFormed(s, r) ==
    IF Len(legal_moves(s)) = 0 THEN r = None
    ELSE /\ is_some(r)
         /\ unwrap(r)[1] \in SeqElems(legal_moves(s))

C4EmptyCells(s) == ROWS * COLS - Cardinality(s.mask_bb)

\* The Connect Four states on which the exhaustive searches are evaluated: the
\* terminal ones (every child of a won state is terminal) and those with at
\* most MaxExactEmpty empty cells.
ExactSearchable(s) == c4_is_terminal(s) \/ C4EmptyCells(s) <= MaxExactEmpty

\* C6: on every reachable state of either game, minimax_best_move,
\* minimax_best_move_ab and minimax_best_move_ab_depth (depth >= 1) return None
\* exactly when legal_moves() is empty, and otherwise Some((mv, v)) with mv in
\* legal_moves().
C6_BestMoveNoneIffNoMoves ==
    /\ game = "ttt" =>
           /\ BestMoveWellFormed(ttt, minimax_best_move(ttt))
           /\ BestMoveWellFormed(ttt, minimax_best_move_ab(ttt))
           /\ \A d \in (1..MaxSearchDepth) \cup {MaxDepth} :
                  BestMoveWellFormed(ttt, minimax_best_move_ab_depth(ttt, d))
    /\ game = "c4" =>
           /\ ExactSearchable(c4) =>
                  /\ BestMoveWellFormed(c4, minimax_best_move(c4))
                  /\ BestMoveWellFormed(c4, minimax_best_move_ab(c4))
           /\ \A d \in 1..MaxSearchDepth :
                  BestMoveWellFormed(c4, minimax_best_move_ab_depth(c4, d))

\* A won Connect Four board with free columns: terminal, yet the queries
\* return a move, as legal_moves() is not empty.
C6_Witness ==
    /\ game = "c4"
    /\ c4_is_terminal(c4)
    /\ Len(legal_moves(c4)) > 0
    /\ is_some(minimax_best_move(c4))
    /\ is_some(minimax_best_move_ab_depth(c4, 1))

\* C7: in every reachable terminal state of either game legal_moves() is
\* empty, so every best-move function returns None there.
C7_TerminalHasNoMoves ==
    /\ (game = "ttt" /\ ttt_is_terminal(ttt)) =>
           /\ Len(legal_moves(ttt)) = 0
           /\ minimax_best_move(ttt) = None
           /\ minimax_best_move_ab(ttt) = None
           /\ minimax_best_move_ab_depth(ttt, MaxDepth) = None
    /\ (game = "c4" /\ c4_is_terminal(c4)) =>
           /\ Len(legal_moves(c4)) = 0
           /\ minimax_best_move(c4) = None
           /\ minimax_best_move_ab(c4) = None
           /\ minimax_best_move_ab_depth(c4, 1) = None

\* The 69 four-cell lines of the 7x6 board, from the geometry: a start cell
\* (r, c) and a direction (dr, dc), all four cells on the board.
FourLines ==
    {{idx(w[1] + k * w[3], w[2] + k * w[4]) : k \in 0..3} :
        w \in {x \in (0..(ROWS - 1)) \X (0..(COLS - 1)) \X {0, 1} \X {-1, 0, 1} :
                 /\ <<x[3], x[4]>> \in {<<0, 1>>, <<1, 0>>, <<1, 1>>, <<1, -1>>}
                 /\ x[1] + 3 * x[3] \in 0..(ROWS - 1)
                 /\ x[2] + 3 * x[4] \in 0..(COLS - 1)}}

HoldsFour(bb) == \E l \in FourLines : l \subseteq bb

DiscsOf(s, p) == IF p = "Player1" THEN s.player_bb ELSE s.mask_bb \ s.player_bb

\* The move from s to t completes a line of four for the player who moved.
CompletesFour(s, t) ==
    \E l \in FourLines :
        /\ l \subseteq DiscsOf(t, s.current_player)
        /\ (t.mask_bb \ s.mask_bb) \subseteq l
        /\ t.mask_bb # s.mask_bb

\* C8: after any sequence of legal moves whose last move gives the mover four
\* in a line, the state is terminal with value Some(+1) for Player1 and
\* Some(-1) for Player2; the three test sequences end terminal with Some(1).
C8_WinDetected ==
    [][(game = "c4" /\ CompletesFour(c4, c4')) =>
           /\ c4_is_terminal(c4')
           /\ c4_terminal_value(c4') = Some(IF c4.current_player = "Player1" THEN 1 ELSE -1)
           /\ \A q \in {<<0, 6, 1, 6, 2, 6, 3>>, <<0, 6, 0, 6, 0, 6, 0>>,
                        <<0, 1, 1, 2, 2, 3, 2, 3, 3, 0, 3>>} :
                  /\ c4_is_terminal(play_sequence(q))
                  /\ c4_terminal_value(play_sequence(q)) = Some(1)]_vars

\* The same with the moves played from a terminal state left out.
C8_WinDetectedInPlay ==
    [][(game = "c4" /\ ~c4_is_terminal(c4) /\ CompletesFour(c4, c4')) =>
           /\ c4_is_terminal(c4')
           /\ c4_terminal_value(c4') = Some(IF c4.current_player = "Player1" THEN 1 ELSE -1)
           /\ \A q \in {<<0, 6, 1, 6, 2, 6, 3>>, <<0, 6, 0, 6, 0, 6, 0>>,
                        <<0, 1, 1, 2, 2, 3, 2, 3, 3, 0, 3>>} :
                  /\ c4_is_terminal(play_sequence(q))
                  /\ c4_terminal_value(play_sequence(q)) = Some(1)]_vars

PlayableCells == {idx(row, col) : row \in 0..(ROWS - 1), col \in 0..(COLS - 1)}

\* C9: is_full() is true exactly when every column's height is 6, which is
\* when all 42 playable cells are occupied; after 42 moves (six per column, in
\* any order, also past a win) is_full() is true and terminal_value() is
\* Some(v) with v in {-1, 0, 1}.
C9_FullBoard ==
    game = "c4" =>
        /\ is_full(c4) <=> (\A c \in 0..(COLS - 1) : c4.heights[c] = 6)
        /\ is_full(c4) <=> PlayableCells \subseteq c4.mask_bb
        /\ plies = ROWS * COLS =>
               /\ is_full(c4)
               /\ c4_terminal_value(c4) \in {Some(-1), Some(0), Some(1)}

\* A board filled by 42 moves, some of them played after a win.
C9_Witness ==
    /\ game = "c4"
    /\ plies = ROWS * COLS
    /\ over
    /\ is_full(c4)
    /\ PlayableCells \subseteq c4.mask_bb
    /\ c4_terminal_value(c4) = Some(1)

KeyWins(s, col) ==
    HoldsFour(DiscsOf(s, s.current_player) \cup {idx(s.heights[col], col)})

KeyBlocks(s, col) ==
    /\ ~KeyWins(s, col)
    /\ HoldsFour(DiscsOf(s, opposite_player(s.current_player))
                     \cup {idx(s.heights[col], col)})

OpenColumns(s) == {c \in 0..(COLS - 1) : s.heights[c] < ROWS}

\* C10: in every reachable non-terminal Connect Four state, for every non-full
\* column c, move_ordering_key(c) is 1,000,000 iff the mover completes four by
\* playing c, 10,000 iff c does not win but the opponent would complete four in
\* that cell, and otherwise the centre weight of c; so a winning column's key
\* exceeds every non-winning column's key.
C10_MoveOrderingKey ==
    (game = "c4" /\ ~c4_is_terminal(c4)) =>
        /\ \A c \in OpenColumns(c4) :
               LET key == move_ordering_key(c4, c)
               IN  /\ key = 1000000 <=> KeyWins(c4, c)
                   /\ key = 10000 <=> KeyBlocks(c4, c)
                   /\ (~KeyWins(c4, c) /\ ~KeyBlocks(c4, c)) =>
                          key = <<3, 4, 5, 7, 5, 4, 3>>[c + 1]
        /\ \A c1, c2 \in OpenColumns(c4) :
               (KeyWins(c4, c1) /\ ~KeyWins(c4, c2)) =>
                   move_ordering_key(c4, c1) > move_ordering_key(c4, c2)

\* Player2 to move with a winning column, a blocking column and a plain one.
C10_Witness ==
    /\ game = "c4"
    /\ ~c4_is_terminal(c4)
    /\ c4.current_player = "Player2"
    /\ \E c1, c2, c3 \in OpenColumns(c4) :
           /\ move_ordering_key(c4, c1) = 1000000
           /\ move_ordering_key(c4, c2) = 10000
           /\ move_ordering_key(c4, c3) = <<3, 4, 5, 7, 5, 4, 3>>[c3 + 1]

\* C11: in every reachable non-terminal Connect Four state in which the mover
\* has a column that completes four, minimax_best_move_ab_depth(state, 1)
\* returns such a column, with value +1,000,000 (so strictly positive) for
\* Player1 and -1,000,000 for Player2; after 0,6,1,6,2,6 it returns column 3.
C11_DepthOnePicksWin ==
    /\ (game = "c4" /\ ~c4_is_terminal(c4) /\ \E c \in OpenColumns(c4) : KeyWins(c4, c)) =>
           LET r == minimax_best_move_ab_depth(c4, 1)
           IN  /\ is_some(r)
               /\ unwrap(r)[1] \in OpenColumns(c4)
               /\ KeyWins(c4, unwrap(r)[1])
               /\ c4_is_terminal(apply_move(c4, unwrap(r)[1]))
               /\ c4.current_player = "Player1" =>
                      (unwrap(r)[2] = 1000000 /\ unwrap(r)[2] > 0)
               /\ c4.current_player = "Player2" => unwrap(r)[2] = -1000000
    /\ (game = "c4" /\ c4 = play_sequence(<<0, 6, 1, 6, 2, 6>>)) =>
           /\ unwrap(minimax_best_move_ab_depth(c4, 1))[1] = 3
           /\ unwrap(minimax_best_move_ab_depth(c4, 1))[2] > 0

\* Player2 to move with a winning column that is not the first legal column:
\* the search returns it with -1,000,000.
C11_Witness ==
    /\ game = "c4"
    /\ ~c4_is_terminal(c4)
    /\ c4.current_player = "Player2"
    /\ \E c \in OpenColumns(c4) : KeyWins(c4, c)
    /\ ~KeyWins(c4, legal_moves(c4)[1])
    /\ KeyWins(c4, unwrap(minimax_best_move_ab_depth(c4, 1))[1])
    /\ unwrap(minimax_best_move_ab_depth(c4, 1))[2] = -1000000

\* C12: heuristic_value() (evaluate()) of BitboardState::new() is exactly 0.
C12_EmptyBoardHeuristicZero ==
    (game = "c4" /\ c4 = c4_new) =>
        /\ heuristic_value(c4) = 0
        /\ evaluate(c4) = 0
        /\ score_all_windows(c4.player_bb, p2_bb(c4)) = 0
        /\ center_control_score(c4.player_bb, p2_bb(c4)) = 0

\* The empty board before any move: not terminal, so evaluate() takes the
\* window and centre scores.
C12_Witness ==
    /\ game = "c4"
    /\ c4 = c4_new
    /\ plies = 0
    /\ c4_terminal_value(c4) = None
    /\ heuristic_value(c4) = 0

\* A board string as the claim describes it: exactly 9 characters, each one
\* of '.', 'X', 'O'.
WellFormedRepr(str) == Len(str) = 9 /\ \A k \in 1..Len(str) : str[k] \in {".", "X", "O"}

\* C13: from_str(repr, p) succeeds iff repr has exactly 9 characters each in
\* {'.', 'X', 'O'}; on success cell i is Empty/X/O exactly as character i is
\* '.'/'X'/'O', mapping the cells back to characters reproduces repr, and
\* current_player is p; any other character or length yields Err and no state.
C13_FromStrRoundTrip ==
    parsed # None =>
        LET p == unwrap(parsed).current_player
            r == unwrap(parsed).result
        IN  /\ is_ok(r) <=> WellFormedRepr(repr)
            /\ is_ok(r) =>
                   /\ \A i \in 0..8 :
                          /\ r.value.board[i] = "Empty" <=> repr[i + 1] = "."
                          /\ r.value.board[i] = "X" <=> repr[i + 1] = "X"
                          /\ r.value.board[i] = "O" <=> repr[i + 1] = "O"
                   /\ [k \in 1..9 |-> cell_to_char(r.value.board[k - 1])] = repr
                   /\ r.value.current_player = p
            /\ ~WellFormedRepr(repr) =>
                   /\ is_err(r)
                   /\ "value" \notin DOMAIN r

\* The test string "X.O...O.." parsed for Player1.
C13_Witness ==
    /\ repr = <<"X", ".", "O", ".", ".", ".", "O", ".", ".">>
    /\ parsed # None
    /\ unwrap(parsed).current_player = "Player1"
    /\ is_ok(unwrap(parsed).result)
    /\ unwrap(parsed).result.value.board[0] = "X"
    /\ unwrap(parsed).result.value.board[1] = "Empty"
    /\ unwrap(parsed).result.value.board[2] = "O"
    /\ unwrap(parsed).result.value.current_player = "Player1"

\* The 8 lines of the 3x3 board from its geometry: rows, columns, diagonals.
TttLines ==
    {{3 * r + c : c \in 0..2} : r \in 0..2}
        \cup {{3 * r + c : r \in 0..2} : c \in 0..2}
        \cup {{4 * k : k \in 0..2}, {2 + 2 * k : k \in 0..2}}

HoldsLine(s, mark) == \E l \in TttLines : \A i \in l : s.board[i] = mark

\* C14: in every Tic-Tac-Toe state reached by legal moves that stop at terminal
\* states, terminal_value() is Some(1) iff X holds one of the 8 lines, Some(-1)
\* iff O holds one, Some(0) iff the board is full and neither holds a line, and
\* None otherwise; it is the same whoever is to move.
C14_TerminalValueConvention ==
    (game = "ttt" /\ ~over) =>
        LET tv == ttt_terminal_value(ttt)
            full == \A i \in 0..8 : ttt.board[i] # "Empty"
        IN  /\ tv = Some(1) <=> HoldsLine(ttt, "X")
            /\ tv = Some(-1) <=> HoldsLine(ttt, "O")
            /\ tv = Some(0) <=> (full /\ ~HoldsLine(ttt, "X") /\ ~HoldsLine(ttt, "O"))
            /\ tv = None <=> (~full /\ ~HoldsLine(ttt, "X") /\ ~HoldsLine(ttt, "O"))
            /\ \A p \in Player : ttt_terminal_value([ttt EXCEPT !.current_player = p]) = tv

\* O has just completed a line: Player1 is to move and the value is Some(-1).
C14_Witness ==
    /\ game = "ttt"
    /\ ~over
    /\ HoldsLine(ttt, "O")
    /\ ttt.current_player = "Player1"
    /\ ttt_terminal_value(ttt) = Some(-1)

\* C15: opposite_player is a total involution on {Player1, Player2} without a
\* fixed point, also on the player to move of every reachable state.
C15_OppositeInvolution ==
    /\ \A p \in Player :
           /\ opposite_player(p) \in Player
           /\ opposite_player(opposite_player(p)) = p
           /\ opposite_player(p) # p
    /\ game = "ttt" =>
           apply_move(ttt, 0).current_player # ttt.current_player
    /\ game = "c4" =>
           apply_move(c4, 0).current_player # c4.current_player

\* A state in which Player2 is to move, one move after new().
C15_Witness ==
    /\ game = "ttt"
    /\ plies = 1
    /\ ttt.current_player = "Player2"
    /\ opposite_player(ttt.current_player) = "Player1"
    /\ opposite_player(opposite_player(ttt.current_player)) = "Player2"

\* C16: in every Connect Four state reached from new() by legal moves, for
\* each column c, heights[c] <= 6, the bits of mask_bb in the column's 7-bit
\* field are exactly rows 0..heights[c]-1, the sentinel bit c*7+6 is clear, no
\* bit at index 49 or above is set, and player_bb is a subset of mask_bb.
C16_ColumnFieldsWellFormed ==
    game = "c4" =>
        /\ \A c \in 0..6 :
               /\ c4.heights[c] <= 6
               /\ {r \in 0..6 : (c * 7 + r) \in c4.mask_bb} = 0..(c4.heights[c] - 1)
               /\ Cardinality({b \in c4.mask_bb : b \div 7 = c}) = c4.heights[c]
               /\ (c * 7 + 6) \notin c4.mask_bb
        /\ \A b \in c4.mask_bb : b < 49
        /\ c4.player_bb \subseteq c4.mask_bb

\* A full column next to an open one, after a legal move made freely.
C16_Witness ==
    /\ game = "c4"
    /\ free >= 1
    /\ \E c \in 0..6 :
           /\ c4.heights[c] = 6
           /\ {r \in 0..6 : (c * 7 + r) \in c4.mask_bb} = 0..5
    /\ \E c \in 0..6 : c4.heights[c] \in 1..5
    /\ c4.player_bb # {}
    /\ c4.player_bb # c4.mask_bb

IllegalTttMove(s, index) == index > 8 \/ s.board[index] # "Empty"

IllegalC4Move(s, col) == col > 6 \/ s.heights[col] >= 6

\* A step in which the client calls apply_move with an illegal move.
IllegalCall ==
    /\ pc = "client"
    /\ pc' # "client"
    /\ \/ game = "ttt" /\ IllegalTttMove(ttt, unwrap(move'))
       \/ game = "c4" /\ IllegalC4Move(c4, unwrap(move'))

\* C17 as claimed: apply_move with an illegal move (Tic-Tac-Toe: index above 8
\* or an occupied cell; Connect Four: column above 6 or a column of height 6)
\* panics and never returns a state.
C17_IllegalMovePanics ==
    [][IllegalCall => (pc' = "panic" /\ ttt' = ttt /\ c4' = c4)]_vars

\* C17 as amended: the call panics exactly when the index is above 8 or the
\* column above 6.  On an occupied cell it returns the board with that cell
\* overwritten by the mover's mark, on a column of height 6 it returns the
\* board with the column's sentinel bit set and height 7; in both the player
\* to move is switched.
C17_OutOfRangePanics ==
    [][IllegalCall =>
           /\ game = "ttt" =>
                  /\ pc' = "panic" <=> unwrap(move') > 8
                  /\ unwrap(move') > 8 => ttt' = ttt
                  /\ unwrap(move') <= 8 =>
                         /\ pc' = "returned"
                         /\ ttt'.board[unwrap(move')] =
                                (IF ttt.current_player = "Player1" THEN "X" ELSE "O")
                         /\ \A i \in 0..8 : i # unwrap(move') => ttt'.board[i] = ttt.board[i]
                         /\ ttt'.current_player # ttt.current_player
           /\ game = "c4" =>
                  /\ pc' = "panic" <=> unwrap(move') > 6
                  /\ unwrap(move') > 6 => c4' = c4
                  /\ unwrap(move') <= 6 =>
                         /\ pc' = "returned"
                         /\ c4'.heights[unwrap(move')] = c4.heights[unwrap(move')] + 1
                         /\ c4'.mask_bb =
                                c4.mask_bb \cup {7 * unwrap(move') + c4.heights[unwrap(move')]}
                         /\ c4'.current_player # c4.current_player]_vars

\* An illegal call that returned: a Tic-Tac-Toe board with fewer marks than
\* moves applied, as the last one overwrote an occupied cell.
C17_Witness ==
    /\ game = "ttt"
    /\ pc = "returned"
    /\ move # None
    /\ ttt.board[unwrap(move)] # "Empty"
    /\ Cardinality({i \in 0..8 : ttt.board[i] # "Empty"}) < plies

DriverFinished == pc \in {"player1_wins", "player2_wins", "draw"}

\* C18 as claimed: for every state the driver reaches and every depth it can
\* pass, 0 included, minimax_best_move_ab_depth completes with a result in
\* either build, depth - 1 is never computed with depth = 0, and the
\* recursion goes no more than depth plies below the root.
C18_SearchTotal ==
    pc = "ai" =>
        /\ \A overflow_checks \in BOOLEAN :
               ~minimax_best_move_ab_depth_panics(DriverState, ai_depth, overflow_checks)
        /\ ~depth_underflows(DriverState, ai_depth)
        /\ best_move_first_line(DriverState, ai_depth) <= ai_depth
        /\ value_first_line(DriverState, ai_depth) <= ai_depth

\* C19: in the human-vs-AI loop with AI depth >= 1, where the human
\* eventually enters a valid move, the game ends, after at most 9
\* (Tic-Tac-Toe) or 42 (Connect Four) applied moves; the loop is left only in
\* a terminal state, whose value is Some(1), Some(-1) or Some(0), and the
\* branches 'AI has no legal moves' and 'Non-terminal state at end' are
\* never taken.
C19_DriverGameEnds ==
    /\ [](ai_depth >= 1 =>
             /\ plies <= (IF game = "ttt" THEN 9 ELSE 42)
             /\ pc \notin {"ai_no_moves", "non_terminal_at_end", "panic"}
             /\ (pc = "game_over" \/ DriverFinished) =>
                    /\ is_terminal(DriverState)
                    /\ terminal_value(DriverState) \in {Some(1), Some(-1), Some(0)})
    /\ (ai_depth >= 1) ~> DriverFinished

\* A Connect Four game played to its end against the AI.
C19_Witness ==
    /\ game = "c4"
    /\ ai_depth >= 1
    /\ DriverFinished
    /\ plies >= 7
    /\ c4_is_terminal(c4)

\* C20: in every Tic-Tac-Toe game driven from the empty board in which one
\* side plays the moves of minimax_best_move_ab_depth(state, 9) and the other
\* any legal moves, the final state is not a win for the other side.
C20_DepthNineNeverLoses ==
    (game = "ttt" /\ ai_depth = 9) =>
        /\ pc \notin {"ai_no_moves", "non_terminal_at_end", "panic"}
        /\ is_terminal(ttt) =>
               /\ ~human_is_player1 => terminal_value(ttt) # Some(-1)
               /\ human_is_player1 => terminal_value(ttt) # Some(1)
        /\ DriverFinished =>
               pc # (IF human_is_player1 THEN "player1_wins" ELSE "player2_wins")

\* A finished game that the AI won as Player2 at depth 9.
C20_Witness ==
    /\ game = "ttt"
    /\ ai_depth = 9
    /\ human_is_player1
    /\ pc = "player2_wins"
    /\ terminal_value(ttt) = Some(-1)

\* A decimal numeral and the number it writes.
IsNumeral(str) ==
    Len(str) > 0 /\ \A k \in 1..Len(str) : \E d \in 1..10 : Digits[d] = str[k]

RECURSIVE NumeralValue(_)
NumeralValue(str) ==
    IF str = <<>> THEN 0
    ELSE 10 * NumeralValue(SubSeq(str, 1, Len(str) - 1)) + digit_value(str[Len(str)])

\* What the claim expects of parse_ttt_move for one line of input.
ParsesAsClaimed(input, state) ==
    LET t == trim(input)
        u == IF Len(t) > 0 /\ Head(t) = "+" THEN Tail(t) ELSE t
        numeric == IsNumeral(u)
        r == parse_ttt_move(input, state)
    IN  /\ is_ok(r) <=> /\ numeric
                        /\ NumeralValue(u) \in 0..8
                        /\ state.board[NumeralValue(u)] = "Empty"
        /\ is_ok(r) => /\ r.value = NumeralValue(u)
                       /\ r.value \in SeqElems(ttt_legal_moves(state))
        /\ ~numeric => is_err(r) /\ r.error = "Could not parse input as a number in 0..=8"
        /\ (numeric /\ NumeralValue(u) > 8) =>
               is_err(r) /\ r.error = "Index must be between 0 and 8"
        /\ (numeric /\ NumeralValue(u) <= 8 /\ state.board[NumeralValue(u)] # "Empty") =>
               is_err(r) /\ r.error = "Cell is not empty."

\* C21: parse_ttt_move returns Ok(mv) exactly when the trimmed input is an
\* integer in 0..=8 whose cell is Empty, and then mv.index is that integer and
\* mv is one of legal_moves(); non-numeric input, an index above 8 and an
\* occupied cell each give Err with a message; on Err the driver leaves the
\* game state unchanged and prompts again, on Ok it applies that move.
C21_ParseTttMove ==
    [][(game = "ttt" /\ pc \in {"human", "reprompt"}) =>
           /\ \A input \in InputLines : ParsesAsClaimed(input, ttt)
           /\ pc' \in {"loop", "reprompt"}
           /\ pc' = "reprompt" =>
                  /\ ttt' = ttt
                  /\ plies' = plies
                  /\ \E input \in InputLines : is_err(parse_ttt_move(input, ttt))
           /\ pc' = "loop" =>
                  \E input \in InputLines :
                      /\ is_ok(parse_ttt_move(input, ttt))
                      /\ ttt' = ttt_apply_move(ttt, parse_ttt_move(input, ttt).value)
                      /\ move' = Some(parse_ttt_move(input, ttt).value)]_vars

\* The human was prompted again on a board with marks, and then moved.
C21_Witness ==
    /\ game = "ttt"
    /\ pc = "reprompt"
    /\ plies >= 3
    /\ \E input \in InputLines :
           parse_ttt_move(input, ttt) = Err("Cell is not empty.")
    /\ \E input \in InputLines : is_ok(parse_ttt_move(input, ttt))

\* Depths, u32::MAX among them (written -1), and the ends of search windows.
CutoffDepths == {0, 1, 2, -1}

WindowEnds == {I32_MIN, 0, I32_MAX}

Abs(n) == IF n < 0 THEN -n ELSE n

\* The largest centre-control sum: six discs of one player in every column.
CentreMax ==
    ROWS * (COL_WEIGHTS[1] + COL_WEIGHTS[2] + COL_WEIGHTS[3] + COL_WEIGHTS[4]
                + COL_WEIGHTS[5] + COL_WEIGHTS[6] + COL_WEIGHTS[7])

\* C23: in every non-terminal Connect Four state reached by legal moves the
\* absolute value of evaluate() is at most 69 * 100 plus the centre-control
\* sum, and so strictly less than 1,000,000, the scaled value of a win.
C23_HeuristicBelowWin ==
    (game = "c4" /\ ~c4_is_terminal(c4)) =>
        /\ Abs(evaluate(c4)) <= Cardinality(FourLines) * 100 + CentreMax
        /\ Cardinality(FourLines) = 69
        /\ Abs(evaluate(c4)) < 1000000
        /\ Abs(heuristic_value(c4)) < 1000000

\* A non-terminal position with an open three: the estimate is in the hundreds.
C23_Witness ==
    /\ game = "c4"
    /\ ~c4_is_terminal(c4)
    /\ plies >= 5
    /\ Abs(evaluate(c4)) >= 100

\* What the claim lets a window contribute, from the counts of its discs.
WindowContribution(s, l) ==
    LET own == Cardinality(l \cap DiscsOf(s, "Player1"))
        opp == Cardinality(l \cap DiscsOf(s, "Player2"))
    IN  IF opp = 0 /\ own = 3 THEN 100
        ELSE IF opp = 0 /\ own = 2 THEN 10
        ELSE IF own = 0 /\ opp = 2 THEN -10
        ELSE IF own = 0 /\ opp = 3 THEN -100
        ELSE 0

\* The discs of player p in column c.
ColumnDiscs(s, p, c) == Cardinality({b \in DiscsOf(s, p) : b \div BITS_PER_COL = c})

\* The contributions of the windows in S, and of the columns in C, added up.
RECURSIVE SumWindows(_, _)
SumWindows(s, S) ==
    IF S = {} THEN 0
    ELSE LET l == CHOOSE x \in S : TRUE
         IN  WindowContribution(s, l) + SumWindows(s, S \ {l})

RECURSIVE SumCentre(_, _)
SumCentre(s, C) ==
    IF C = {} THEN 0
    ELSE LET c == CHOOSE x \in C : TRUE
         IN  COL_WEIGHTS[c + 1] * (ColumnDiscs(s, "Player1", c) - ColumnDiscs(s, "Player2", c))
                 + SumCentre(s, C \ {c})

\* C30: in every non-terminal Connect Four state reached by legal moves no
\* four-cell window is fully owned by one player, so score_window never
\* returns +100000 or -100000 inside evaluate(); each window contributes
\* +100, +10, -10, -100 or 0, and evaluate() is the sum of these plus the
\* centre-control sum of weight[c] * (Player1 discs in c - Player2 discs in c).
C30_NoOwnedWindowInPlay ==
    (game = "c4" /\ ~c4_is_terminal(c4)) =>
        LET masks == horizontal_masks \o vertical_masks \o diag_down_masks \o diag_up_masks
        IN  /\ \A l \in FourLines :
                   /\ ~(l \subseteq DiscsOf(c4, "Player1"))
                   /\ ~(l \subseteq DiscsOf(c4, "Player2"))
            /\ \A k \in 1..Len(masks) :
                   /\ score_window(c4.player_bb, p2_bb(c4), masks[k])
                          \in {100, 10, -10, -100, 0}
                   /\ score_window(c4.player_bb, p2_bb(c4), masks[k])
                          = WindowContribution(c4, masks[k])
            /\ evaluate(c4) = SumWindows(c4, FourLines) + SumCentre(c4, 0..(COLS - 1))

\* A non-terminal position with an open three of Player1 and an open pair of
\* Player2.
C30_Witness ==
    /\ game = "c4"
    /\ ~c4_is_terminal(c4)
    /\ \E l \in FourLines : WindowContribution(c4, l) = 100
    /\ \E l \in FourLines : WindowContribution(c4, l) = -10
    /\ evaluate(c4) # 0

\* C24: in every Connect Four state reached from the empty board by legal
\* moves with no move played from a terminal state, check_win(player_bb) and
\* check_win(mask_bb XOR player_bb) are not both true; they are both true only
\* after play went on past a terminal state, and then terminal_value() is
\* Some(1).
C24_NoDoubleWinInPlay ==
    game = "c4" =>
        LET both == check_win(c4.player_bb) /\ check_win(BitXor(c4.mask_bb, c4.player_bb))
        IN  /\ ~over => ~both
            /\ both => over /\ c4_terminal_value(c4) = Some(1) /\ terminal_value(c4) = Some(1)

\* Both players hold a line of four, after a move played from a won position.
C24_Witness ==
    /\ game = "c4"
    /\ over
    /\ check_win(c4.player_bb)
    /\ check_win(BitXor(c4.mask_bb, c4.player_bb))
    /\ c4_terminal_value(c4) = Some(1)

\* C25: TicTacToeState::move_ordering_key is 3 for the centre cell 4, 2 for
\* the corners 0, 2, 6, 8 and 1 for the edges 1, 3, 5, 7, whatever the board
\* holds (the cell may be taken) and whoever is to move: centre > corner > edge.
C25_TttOrderingKey ==
    game = "ttt" =>
        LET other == [ttt EXCEPT !.current_player = opposite_player(@)]
        IN  /\ move_ordering_key(ttt, 4) = 3
            /\ \A mv \in {0, 2, 6, 8} : move_ordering_key(ttt, mv) = 2
            /\ \A mv \in {1, 3, 5, 7} : move_ordering_key(ttt, mv) = 1
            /\ \A mv \in 0..8 :
                   /\ move_ordering_key(ttt, mv) = ttt_move_ordering_key(ttt_new, mv)
                   /\ move_ordering_key(ttt, mv) = move_ordering_key(other, mv)
            /\ \A corner \in {0, 2, 6, 8}, edge \in {1, 3, 5, 7} :
                   /\ move_ordering_key(ttt, 4) > move_ordering_key(ttt, corner)
                   /\ move_ordering_key(ttt, corner) > move_ordering_key(ttt, edge)

\* Player2 to move with the centre taken and corners and edges still free.
C25_Witness ==
    /\ game = "ttt"
    /\ ttt.current_player = "Player2"
    /\ ttt.board[4] # "Empty"
    /\ ttt.board[0] = "Empty"
    /\ ttt.board[1] = "Empty"
    /\ ttt_move_ordering_key(ttt, 4) = 3
    /\ sort_by_key_reverse(ttt, ttt_legal_moves(ttt))[1] \in {0, 2, 6, 8}

\* The lines of four by direction: a start cell and a step (dr, dc).
LinesAlong(dr, dc) ==
    {{idx(row + k * dr, col + k * dc) : k \in 0..3} :
        <<row, col>> \in {x \in (0..(ROWS - 1)) \X (0..(COLS - 1)) :
                             /\ x[1] + 3 * dr \in 0..(ROWS - 1)
                             /\ x[2] + 3 * dc \in 0..(COLS - 1)}}

SentinelBits == {idx(ROWS, col) : col \in 0..(COLS - 1)}

MaskSet(masks) == {masks[k] : k \in DOMAIN masks}

RowLines == LinesAlong(0, 1)

ColumnLines == LinesAlong(1, 0)

DiagonalLines == LinesAlong(1, 1)

AntiDiagonalLines == LinesAlong(-1, 1)

BoardLines == RowLines \cup ColumnLines \cup DiagonalLines \cup AntiDiagonalLines

\* The windows of check_horizontal, check_vertical, check_diag_down and
\* check_diag_up are these lines, each once.
WindowsAreBoardLines ==
    /\ Cardinality(RowLines) = 24
    /\ Cardinality(ColumnLines) = 21
    /\ Cardinality(DiagonalLines) = 12
    /\ Cardinality(AntiDiagonalLines) = 12
    /\ Cardinality(BoardLines) = 69
    /\ MaskSet(horizontal_masks) = RowLines
    /\ MaskSet(vertical_masks) = ColumnLines
    /\ MaskSet(diag_down_masks) = DiagonalLines
    /\ MaskSet(diag_up_masks) = AntiDiagonalLines
    /\ Len(horizontal_masks) + Len(vertical_masks) + Len(diag_down_masks)
           + Len(diag_up_masks) = 69

\* C26: for every board whose sentinel bits c*7+6 and bits from 49 up are
\* clear, check_win is true exactly when the board contains all four cells
\* of one of the 69 lines of the 7x6 board (24 along rows, 21 along columns,
\* 12 and 12 along the diagonals), which are the windows of the heuristic's
\* loops: no false positive from wrap-around, no false negative.
C26_CheckWinIffLine ==
    (game = "bits" /\ c4.player_bb \cap SentinelBits = {}
                  /\ \A b \in c4.player_bb : b < COLS * BITS_PER_COL) =>
        /\ check_win(c4.player_bb) <=> \E l \in BoardLines : l \subseteq c4.player_bb
        /\ WindowsAreBoardLines

\* Four cells that straddle two columns at shift 1 (rows 3, 4, 5 of column 0
\* and row 0 of column 1): not a line, and check_win is false.
C26_Witness ==
    /\ game = "bits"
    /\ c4.player_bb = {idx(3, 0), idx(4, 0), idx(5, 0), idx(0, 1)}
    /\ ~check_win(c4.player_bb)

\* The moves as the four alpha-beta searches explore them.
ExploredOrder(s) == sort_by_key_reverse(s, legal_moves(s))

Descending(s, q) ==
    \A i, j \in 1..Len(q) : i < j => move_ordering_key(s, q[i]) >= move_ordering_key(s, q[j])

Ascending(s, q) ==
    \A i, j \in 1..Len(q) : i < j => move_ordering_key(s, q[i]) <= move_ordering_key(s, q[j])

\* C27 as claimed: the legal moves are explored in descending order of
\* move_ordering_key when Player1 is to move and in ascending order when
\* Player2 is to move.
C27_OrderBySide ==
    LET s == IF game = "ttt" THEN ttt ELSE c4
    IN  IF current_player(s) = "Player1" THEN Descending(s, ExploredOrder(s))
        ELSE Ascending(s, ExploredOrder(s))

\* C27 amended: whichever side is to move, the legal moves are explored in
\* descending order of move_ordering_key, moves of equal key in their
\* legal_moves() order, and every legal move once.
C27_OrderDescending ==
    LET s == IF game = "ttt" THEN ttt ELSE c4
        q == ExploredOrder(s)
    IN  /\ Descending(s, q)
        /\ Len(q) = Len(legal_moves(s))
        /\ SeqElems(q) = SeqElems(legal_moves(s))
        /\ \A i, j \in 1..Len(q) :
               (i < j /\ move_ordering_key(s, q[i]) = move_ordering_key(s, q[j]))
                   => q[i] < q[j]

\* Player2 to move with moves of different keys: the largest key comes first.
C27_Witness ==
    LET s == IF game = "ttt" THEN ttt ELSE c4
        q == ExploredOrder(s)
    IN  /\ current_player(s) = "Player2"
        /\ Len(q) >= 3
        /\ move_ordering_key(s, q[1]) > move_ordering_key(s, q[Len(q)])
        /\ ~Ascending(s, q)

\* C28: for a bitboard state s and a column col with heights[col] < 6,
\* apply_column_move(col) returns a state whose mask_bb is s.mask_bb with
\* exactly the one extra bit col*7 + s.heights[col]; whose player_bb gains
\* that bit iff s.current_player is Player1 and is unchanged for Player2;
\* whose heights[col] is one more, the other heights unchanged; whose
\* current_player is the opposite player; the step played changes c4 so.
C28_ApplyColumnMoveFrame ==
    [][game = "c4" =>
          /\ \A col \in 0..(COLS - 1) :
                 c4.heights[col] < 6 =>
                     LET t == apply_column_move(c4, col)
                         bit == col * 7 + c4.heights[col]
                     IN  /\ next_bit(c4, col) = {bit}
                         /\ bit \notin c4.mask_bb
                         /\ t.mask_bb = c4.mask_bb \cup {bit}
                         /\ Cardinality(t.mask_bb) = Cardinality(c4.mask_bb) + 1
                         /\ t.player_bb = IF c4.current_player = "Player1"
                                          THEN c4.player_bb \cup {bit} ELSE c4.player_bb
                         /\ t.heights[col] = c4.heights[col] + 1
                         /\ \A other \in (0..(COLS - 1)) \ {col} :
                                t.heights[other] = c4.heights[other]
                         /\ DOMAIN t.heights = DOMAIN c4.heights
                         /\ t.current_player # c4.current_player
                         /\ t.current_player = opposite_player(c4.current_player)
                         /\ apply_move(c4, col) = t
          /\ \E col \in 0..(COLS - 1) :
                 /\ c4.heights[col] < 6
                 /\ c4' = apply_column_move(c4, col)
                 /\ c4'.mask_bb \ c4.mask_bb = {col * 7 + c4.heights[col]}
                 /\ c4.mask_bb \subseteq c4'.mask_bb]_vars

\* Player2 has just dropped a disc on top of others: player_bb did not grow.
C28_Witness ==
    /\ game = "c4"
    /\ plies >= 4
    /\ c4.current_player = "Player1"
    /\ \E col \in 0..(COLS - 1) :
           /\ c4.heights[col] >= 2
           /\ idx(c4.heights[col] - 1, col) \in c4.mask_bb \ c4.player_bb
    /\ \E col \in 0..(COLS - 1) : c4.heights[col] = ROWS

\* C29: for a Tic-Tac-Toe state s and a legal move mv, apply_move(s, mv)
\* returns a state whose cell mv.index holds X if s.current_player is Player1
\* and O if Player2, whose other eight cells are those of s and whose
\* current_player is the opposite player; the step played changes ttt so.
C29_TttApplyMoveFrame ==
    [][game = "ttt" =>
          /\ \A mv \in SeqElems(ttt_legal_moves(ttt)) :
                 LET t == apply_move(ttt, mv)
                 IN  /\ ttt.board[mv] = "Empty"
                     /\ t.board[mv] = CASE ttt.current_player = "Player1" -> "X"
                                         [] ttt.current_player = "Player2" -> "O"
                     /\ \A i \in (0..8) \ {mv} : t.board[i] = ttt.board[i]
                     /\ DOMAIN t.board = 0..8
                     /\ t.current_player # ttt.current_player
                     /\ t.current_player \in Player
                     /\ t = ttt_apply_move(ttt, mv)
          /\ \E mv \in SeqElems(ttt_legal_moves(ttt)) :
                 /\ ttt' = apply_move(ttt, mv)
                 /\ {i \in 0..8 : ttt'.board[i] # ttt.board[i]} = {mv}]_vars

\* Player2 has just marked a cell: the board holds as many O as X.
C29_Witness ==
    /\ game = "ttt"
    /\ plies >= 4
    /\ ttt.current_player = "Player1"
    /\ Cardinality({i \in 0..8 : ttt.board[i] = "O"}) = 2
    /\ Cardinality({i \in 0..8 : ttt.board[i] = "X"}) = 2

\* The value recorded for the move mv in a set of <<move, value>> pairs.
ValueOf(pairs, mv) == (CHOOSE p \in pairs : p[1] = mv)[2]

\* The first move of the sequence q whose child has the value v.
FirstWithValue(q, pairs, v) ==
    q[CHOOSE k \in DOMAIN q :
          /\ ValueOf(pairs, q[k]) = v
          /\ \A j \in 1..(k - 1) : ValueOf(pairs, q[j]) # v]

\* C31: on every reachable non-terminal Tic-Tac-Toe state minimax_best_move
\* returns the first move in legal_moves() order (the lowest cell index) whose
\* child attains the minimax value, and minimax_best_move_ab returns the first
\* such move in the stable descending move_ordering_key order, with the same
\* value; on the empty board these are cell 0 and cell 4, both with value 0.
C31_FirstOptimalMove ==
    (game = "ttt" /\ ~ttt_is_terminal(ttt)) =>
        LET moves == legal_moves(ttt)
            children == {<<mv, minimax_value(apply_move(ttt, mv))>> : mv \in SeqElems(moves)}
            values == {p[2] : p \in children}
            v == IF ttt.current_player = "Player1" THEN SetMax(values) ELSE SetMin(values)
            plain == FirstWithValue(moves, children, v)
            ordered == FirstWithValue(sort_by_key_reverse(ttt, moves), children, v)
        IN  /\ minimax_best_move(ttt) = Some(<<plain, v>>)
            /\ \A p \in children : p[2] = v => plain <= p[1]
            /\ minimax_best_move_ab(ttt) = Some(<<ordered, v>>)
            /\ ttt = ttt_new => (plain = 0 /\ ordered = 4 /\ v = 0)

\* Player2 to move, several optimal moves, and the two searches choose
\* different ones.
C31_Witness ==
    /\ game = "ttt"
    /\ ~ttt_is_terminal(ttt)
    /\ ttt.current_player = "Player2"
    /\ EmptyCells(ttt) <= 6
    /\ unwrap(minimax_best_move(ttt))[1] # unwrap(minimax_best_move_ab(ttt))[1]
    /\ unwrap(minimax_best_move(ttt))[2] = unwrap(minimax_best_move_ab(ttt))[2]

\* The values the search loops start from and never return.
Sentinels == {I32_MIN, I32_MAX}

\* C32: every reachable non-terminal state has at least one legal move (an
\* Empty cell in Tic-Tac-Toe, a column of height below 6 in Connect Four) and
\* every terminal one has a terminal value, so neither unwrap() of
\* minimax_value fails, and no value function returns the i32::MIN or i32::MAX
\* it starts its loop from.
C32_NonTerminalHasMove ==
    LET s == IF game = "ttt" THEN ttt ELSE c4
    IN  /\ is_terminal(s) => is_some(terminal_value(s))
        /\ ~is_terminal(s) =>
               /\ Len(legal_moves(s)) >= 1
               /\ IF game = "ttt" THEN \E i \in 0..8 : ttt.board[i] = "Empty"
                  ELSE \E c \in 0..(COLS - 1) : c4.heights[c] < ROWS
        /\ \A depth \in 1..MaxSearchDepth :
               minimax_value_ab_depth_root(s, depth) \notin Sentinels
        /\ (game = "ttt" \/ ExactSearchable(c4)) =>
               minimax_value_ab_root(s) \notin Sentinels

\* A game still open with a single cell left to play.
C32_Witness ==
    /\ game = "ttt"
    /\ ~ttt_is_terminal(ttt)
    /\ Len(ttt_legal_moves(ttt)) = 1
    /\ minimax_value(ttt) = 0
    /\ minimax_value_ab_root(ttt) = 0

\* The windows a search is started with: alpha < beta, each an end of the i32
\* range or one of the game values.
SearchWindows ==
    {w \in {I32_MIN, -1, 0, 1, I32_MAX} \X {I32_MIN, -1, 0, 1, I32_MAX} : w[1] < w[2]}

\* C33: on every reachable Tic-Tac-Toe state s and every window alpha < beta,
\* with v = minimax_value(s) and r = minimax_value_ab(s, alpha, beta): r = v
\* when alpha < v < beta, v <= r <= alpha when v <= alpha, and
\* beta <= r <= v when v >= beta.
C33_WindowSoundness ==
    game = "ttt" =>
        LET v == minimax_value(ttt)
        IN  \A w \in SearchWindows :
                LET alpha == w[1]
                    beta == w[2]
                    r == minimax_value_ab(ttt, alpha, beta)
                IN  /\ (alpha < v /\ v < beta) => r = v
                    /\ v <= alpha => (v <= r /\ r <= alpha)
                    /\ v >= beta => (beta <= r /\ r <= v)

\* A state still in play where a search with the window (0, 1) stops short
\* of the exact value -1.
C33_Witness ==
    /\ game = "ttt"
    /\ ~ttt_is_terminal(ttt)
    /\ EmptyCells(ttt) <= 5
    /\ minimax_value(ttt) = -1
    /\ minimax_value_ab(ttt, 0, 1) = 0

\* Some terminal state of value v lies at most d legal moves from s.
RECURSIVE DecisiveLeafWithin(_, _, _)
DecisiveLeafWithin(s, d, v) ==
    IF is_terminal(s) THEN terminal_value(s) = Some(v)
    ELSE /\ d > 0
         /\ \E mv \in SeqElems(legal_moves(s)) : DecisiveLeafWithin(apply_move(s, mv), d - 1, v)

\* The depths each game is searched to: a few plies, and for Tic-Tac-Toe the
\* whole game and u32::MAX (written -1) as well.
RangeDepths == [ttt |-> CutoffDepths \cup {MaxDepth}, c4 |-> CutoffDepths \ {-1}]

\* C34: on reachable states minimax_value and minimax_value_ab_root return
\* only -1, 0 or +1; minimax_value_ab_depth_root returns a value within
\* [-1,000,000, +1,000,000] at every depth, and +1,000,000 (-1,000,000) only
\* when a terminal state won by Player1 (Player2) lies within depth moves; the
\* heuristic of a non-terminal state is strictly inside that range.
C34_ValuesInRange ==
    LET s == IF game = "ttt" THEN ttt ELSE c4
    IN  /\ (game = "ttt" \/ ExactSearchable(c4)) =>
               /\ minimax_value(s) \in {-1, 0, 1}
               /\ minimax_value_ab_root(s) \in {-1, 0, 1}
        /\ ~is_terminal(s) => Abs(heuristic_value(s)) < 1000000
        /\ \A depth \in RangeDepths[game] :
               LET r == minimax_value_ab_depth_root(s, depth)
                   horizon == IF depth < 0 THEN MaxDepth ELSE depth
               IN  /\ -1000000 <= r /\ r <= 1000000
                   /\ r = 1000000 => DecisiveLeafWithin(s, horizon, 1)
                   /\ r = -1000000 => DecisiveLeafWithin(s, horizon, -1)

\* A Tic-Tac-Toe position still in play that Player2 loses within two plies
\* whatever is played, while the one-ply search sees no finished game.
C34_Witness ==
    /\ game = "ttt"
    /\ ~ttt_is_terminal(ttt)
    /\ ttt.current_player = "Player2"
    /\ minimax_value_ab_depth_root(ttt, 2) = 1000000
    /\ minimax_value_ab_depth_root(ttt, 1) = 0
    /\ DecisiveLeafWithin(ttt, 2, 1)
    /\ ~DecisiveLeafWithin(ttt, 1, 1)

\* heights[0] + ... + heights[col].
RECURSIVE SumHeights(_, _)
SumHeights(s, col) ==
    IF col < 0 THEN 0 ELSE s.heights[col] + SumHeights(s, col - 1)

Marks(s, mark) == Cardinality({i \in 0..8 : s.board[i] = mark})

\* C35: in every state reached from new() by legal moves Player1 has as many
\* marks as Player2 when current_player is Player1 and exactly one more when
\* it is Player2 (Tic-Tac-Toe: X and O cells; Connect Four: player_bb and
\* mask_bb XOR player_bb), and the Connect Four heights sum to popcount(mask_bb).
C35_TurnsAlternate ==
    LET first == IF game = "ttt" THEN Marks(ttt, "X") ELSE count_ones(c4.player_bb)
        second == IF game = "ttt" THEN Marks(ttt, "O")
                  ELSE count_ones(BitXor(c4.mask_bb, c4.player_bb))
        s == IF game = "ttt" THEN ttt ELSE c4
    IN  /\ first - second \in {0, 1}
        /\ current_player(s) = "Player1" <=> first = second
        /\ current_player(s) = "Player2" <=> first = second + 1
        /\ game = "c4" => SumHeights(c4, COLS - 1) = count_ones(c4.mask_bb)

\* Player2 to move in a Connect Four game with at least seven discs played.
C35_Witness ==
    /\ game = "c4"
    /\ c4.current_player = "Player2"
    /\ count_ones(c4.mask_bb) >= 7
    /\ count_ones(c4.player_bb) = count_ones(BitXor(c4.mask_bb, c4.player_bb)) + 1
    /\ \E c \in 0..(COLS - 1) : c4.heights[c] >= 2

\* The array state and the bitboard state show the same game: equal heights
\* and current_player, the same legal columns, equal is_terminal() and
\* terminal_value(), and cell (row 5 - r, col c) holding P1 / P2 / Empty as
\* bit c * 7 + r is in player_bb / in mask_bb only / in neither.
Corresponds(a, b) ==
    /\ a.heights = b.heights
    /\ a.current_player = b.current_player
    /\ array_legal_moves(a) = c4_legal_moves(b)
    /\ array_is_terminal(a) = c4_is_terminal(b)
    /\ array_terminal_value(a) = c4_terminal_value(b)
    /\ \A c \in 0..(COLS - 1) : \A r \in 0..(ROWS - 1) :
           a.board[array_idx(5 - r, c)] =
               IF (c * 7 + r) \in b.player_bb THEN "P1"
               ELSE IF (c * 7 + r) \in b.mask_bb THEN "P2"
               ELSE "Empty"

\* The two implementations replay the columns cols[k..] side by side, up to
\* the first terminal state, and correspond after every move.
RECURSIVE SameGame(_, _, _, _)
SameGame(a, b, cols, k) ==
    /\ Corresponds(a, b)
    /\ \/ k > Len(cols)
       \/ c4_is_terminal(b)
       \/ SameGame(array_apply_move(a, cols[k]), apply_column_move(b, cols[k]), cols, k + 1)

\* The array state with the cells, heights and player of a bitboard state.
ArrayOf(b) ==
    [board |-> [i \in 0..(ROWS * COLS - 1) |->
                   LET bit == (i % COLS) * BITS_PER_COL + ((ROWS - 1) - (i \div COLS))
                   IN  IF bit \in b.player_bb THEN "P1"
                       ELSE IF bit \in b.mask_bb THEN "P2"
                       ELSE "Empty"],
     heights |-> b.heights,
     current_player |-> b.current_player]

\* C36: after the same legal column moves from their empty boards, no move
\* being played from a terminal state, ConnectFourState and BitboardState have
\* equal heights, current_player, legal columns, is_terminal() and
\* terminal_value(), and cell (row 5 - r, col c) holds P1 / P2 / Empty as bit
\* c * 7 + r is in player_bb / in mask_bb only / in neither.  The scripted
\* games are replayed move by move in both implementations; on every state
\* reached, the empty boards correspond and one more legal move applied to
\* corresponding states gives corresponding states.
C36_ArrayMatchesBitboard ==
    (game = "c4" /\ ~over) =>
        /\ plies = 0 => SameGame(array_new, c4_new, script, 1)
        /\ c4 = c4_new => ArrayOf(c4) = array_new
        /\ Corresponds(ArrayOf(c4), c4)
        /\ ~c4_is_terminal(c4) =>
               \A col \in SeqElems(c4_legal_moves(c4)) :
                   /\ array_apply_move(ArrayOf(c4), col) = ArrayOf(apply_column_move(c4, col))
                   /\ Corresponds(array_apply_move(ArrayOf(c4), col), apply_column_move(c4, col))

\* A game Player2 has just won, as both implementations report it.
C36_Witness ==
    /\ game = "c4"
    /\ ~over
    /\ plies >= 8
    /\ c4_terminal_value(c4) = Some(-1)
    /\ array_winner(ArrayOf(c4)) = Some("Player2")
    /\ ~array_board_filled(ArrayOf(c4))

\* Depth-limited minimax with no window and no move ordering: the leaf rule
\* of minimax_value_ab_depth, and the maximum or minimum over all children.
RECURSIVE DepthLimitedValue(_, _)
DepthLimitedValue(s, depth) ==
    LET tv == terminal_value(s)
    IN  IF is_some(tv) THEN unwrap(tv) * 1000000
        ELSE IF depth = 0 THEN heuristic_value(s)
        ELSE LET values == {DepthLimitedValue(apply_move(s, mv), depth - 1) :
                               mv \in SeqElems(legal_moves(s))}
             IN  IF maximizing(s) THEN SetMax(values) ELSE SetMin(values)

\* The depths the two searches are compared at: up to three plies, and for
\* Tic-Tac-Toe a depth that covers the whole game as well.
PlainDepths == [ttt |-> {0, 1, 2, 3, MaxDepth}, c4 |-> {0, 1, 2}]

\* C37: on every reachable state of either game and at every depth d,
\* minimax_value_ab_depth_root(s, d) equals the value of depth-limited minimax
\* without pruning or move ordering under the same leaf rule
\* (terminal_value * 1,000,000 at terminal states, heuristic_value at depth 0).
C37_PruningKeepsDepthValue ==
    LET s == IF game = "ttt" THEN ttt ELSE c4
    IN  \A depth \in PlainDepths[game] :
            minimax_value_ab_depth_root(s, depth) = DepthLimitedValue(s, depth)

\* A Connect Four position in play whose two-ply value is a heuristic score
\* different from the position's own.
C37_Witness ==
    /\ game = "c4"
    /\ ~c4_is_terminal(c4)
    /\ Abs(DepthLimitedValue(c4, 2)) < 1000000
    /\ DepthLimitedValue(c4, 2) # heuristic_value(c4)
    /\ DepthLimitedValue(c4, 2) # DepthLimitedValue(c4, 1)
    /\ minimax_value_ab_depth_root(c4, 2) = DepthLimitedValue(c4, 2)

\* The board with the two players' discs exchanged.
SwapPlayers(s) == [s EXCEPT !.player_bb = BitXor(s.mask_bb, s.player_bb)]

\* The board mirrored left to right: column c becomes column 6 - c.
MirrorBits(bb) == {((COLS - 1) - (b \div BITS_PER_COL)) * BITS_PER_COL + (b % BITS_PER_COL) : b \in bb}

MirrorColumns(s) ==
    [s EXCEPT !.player_bb = MirrorBits(s.player_bb),
              !.mask_bb = MirrorBits(s.mask_bb),
              !.heights = [c \in 0..(COLS - 1) |-> s.heights[(COLS - 1) - c]]]

\* C38: on every non-terminal Connect Four board, exchanging the players'
\* discs (player_bb replaced by mask_bb XOR player_bb, mask_bb kept) negates
\* evaluate(), and mirroring the board left to right (column c to column
\* 6 - c) leaves evaluate() unchanged; both boards are non-terminal as well.
C38_HeuristicUnbiased ==
    (game = "c4" /\ ~c4_is_terminal(c4)) =>
        /\ ~c4_is_terminal(SwapPlayers(c4))
        /\ ~c4_is_terminal(MirrorColumns(c4))
        /\ evaluate(SwapPlayers(c4)) = -evaluate(c4)
        /\ evaluate(MirrorColumns(c4)) = evaluate(c4)

\* A lopsided board in play, with discs of both players and a score of at
\* least 100 in size.
C38_Witness ==
    /\ game = "c4"
    /\ ~c4_is_terminal(c4)
    /\ MirrorColumns(c4) # c4
    /\ c4.player_bb # {}
    /\ p2_bb(c4) # {}
    /\ Abs(evaluate(c4)) >= 100
    /\ evaluate(SwapPlayers(c4)) = -evaluate(c4)

=============================================================================
